---- MODULE Spec2Model ----
(***************************************************************************)
(* A model of ddc-hi: the identifier registry and the backend enumeration  *)
(* pass (src/src/enumerate.rs), the DisplayInfo merge engine               *)
(* (src/src/display_info.rs), the WinAPI source correlator                 *)
(* (src/src/enumerate.rs, enumerate_winapi) and the Display aggregate with *)
(* its update operations (src/src/lib.rs, src/src/handle.rs, error.rs).    *)
(*                                                                         *)
(* Identifier strings are sequences of atoms.  An atom is either a single  *)
(* character or one of the literal pieces of the format! strings of        *)
(* enumerate.rs ("index:", "mon:", ...).  The atoms form a prefix-free     *)
(* code, so two atom sequences are equal exactly when the strings they     *)
(* spell are equal.                                                        *)
(***************************************************************************)
EXTENDS Integers, Sequences, FiniteSets, TLC

VARIABLES
    \* ---- one Display::enumerate() pass (enumerate.rs) ----
    enabled,     \* the backends compiled in (build.rs)
    pc,          \* "enum" while the iterator chain is drained, "done", "panic"
    bk,          \* position in the chain of enabled backends
    started,     \* the current backend's enumerate_*() has returned Ok
    pos,         \* the enumerate() index i of the current backend's iterator
    sub,         \* the inner index (nvapi subi / winapi ii) and its owner
    idreg,       \* IdRegistry.ids of the current backend
    yielded,     \* the items enumerate_all() has yielded so far
    call,        \* the last IdRegistry::insert call: candidate, registry, result
    displays,    \* the Vec Display::enumerate() is collecting
    edids,       \* what the devices answer to the EDID reads of this pass
    \* ---- IdRegistry::sanitize_id applied repeatedly ----
    sanIn, sanOut, sanPrev, sanN,
    \* ---- DisplayInfo merges (display_info.rs) ----
    info,        \* the target DisplayInfo
    mprev,       \* the target before the last operation
    msrc,        \* the source DisplayInfo of the last update_from
    mcaps,       \* the Capabilities of the last from_capabilities
    mop,         \* the last operation
    mcount,      \* merges done so far
    \* ---- the source correlation of enumerate_winapi (enumerate.rs) ----
    cpc,              \* "si", "outputs", "drain", "done"
    all_monitors,     \* the monitor devices the display devices enumerated
    monitor_devices,  \* the pool of monitor devices not yet matched
    si_seen,          \* device info entries pulled from the DeviceInfoSet
    si_monitors,      \* the pool of device info entries, each with its match
    output,           \* the output being walked: index, display device, ii
    records,          \* the records (monitor, mon_device, monitor_info) of devs
    \* ---- one Display and its update operations ----
    disp,        \* the Display
    dprev,       \* the Display before the last operation
    dop,         \* the last operation and its argument
    dans,        \* what the device answered during the last operation
    dout,        \* what the last operation returned, sent and ran
    dcount,      \* operations so far
    dlog,        \* the operations so far: name, and whether it returned Ok
    \* ---- one Query and the DisplayInfo it is matched against (query.rs) ----
    query,       \* the Query
    qinfo,       \* the DisplayInfo
    qcall,       \* the last Query::matches call: its arguments and its result
    \* ---- the id derivation of enumerate_winapi, record by record ----
    wids,        \* IdRegistry.ids
    wi,          \* the index i of the next record
    wlast        \* the last record: its sources, the registry around it, its id

enumVars  ==
    <<enabled, pc, bk, started, pos, sub, idreg, yielded, call, displays, edids>>
sanVars   == <<sanIn, sanOut, sanPrev, sanN>>
mergeVars == <<info, mprev, msrc, mcaps, mop, mcount>>
corrVars  == <<cpc, all_monitors, monitor_devices, si_seen, si_monitors, output, records>>
dispVars  == <<disp, dprev, dop, dans, dout, dcount, dlog>>
queryVars == <<query, qinfo, qcall>>
winIdVars == <<wids, wi, wlast>>
vars      == <<enumVars, sanVars, mergeVars, corrVars, dispVars, queryVars, winIdVars>>

\* what the actions of one part leave alone
nonEnumVars  == <<sanVars, mergeVars, corrVars, dispVars, queryVars, winIdVars>>
nonSanVars   == <<enumVars, mergeVars, corrVars, dispVars, queryVars, winIdVars>>
nonMergeVars == <<enumVars, sanVars, corrVars, dispVars, queryVars, winIdVars>>
nonCorrVars  == <<enumVars, sanVars, mergeVars, dispVars, queryVars, winIdVars>>
nonDispVars  == <<enumVars, sanVars, mergeVars, corrVars, queryVars, winIdVars>>
nonQueryVars == <<enumVars, sanVars, mergeVars, corrVars, dispVars, winIdVars>>
nonWinIdVars == <<enumVars, sanVars, mergeVars, corrVars, dispVars, queryVars>>

\* Option<T>: None is the empty sequence, Some(v) the sequence of v alone
None == <<>>
Some(v) == <<v>>
IsSome(o) == o # <<>>
Unwrap(o) == o[1]

(***************************************************************************)
(* Bounds of the model.                                                    *)
(***************************************************************************)
MaxItems == 2      \* items one backend's iterator yields
MaxLen == 3        \* length of the strings sanitize_id is applied to
MaxMerges == 2     \* update_from calls in a row
MaxMon == 2        \* monitor devices of the display devices
MaxSi == 2         \* entries of the DeviceInfoSet
MaxOut == 2        \* outputs
MaxPhys == 2       \* physical monitors of one output
MaxRecords == 3    \* records of devs the id derivation is followed over
MaxWidth == 2      \* sub-queries of an Or or an And
MaxDepth == 2      \* nesting of Or and And
MaxUpdates == 2    \* update operations on one Display

(***************************************************************************)
(* Strings.                                                                *)
(***************************************************************************)
Digits == <<"0", "1", "2", "3", "4", "5", "6", "7", "8", "9">>

RECURSIVE Dec(_)
\* format!("{}", n) of an unsigned integer
Dec(n) == IF n < 10 THEN <<Digits[n + 1]>> ELSE Dec(n \div 10) \o <<Digits[(n % 10) + 1]>>

Special == {"\\", "{", "}"}

\* str::contains(&['\\', '{', '}'])
ContainsSpecial(id) == \E k \in 1..Len(id) : id[k] \in Special

\* str::replace("\\", "/")
ReplaceBackslash(id) == [k \in 1..Len(id) |-> IF id[k] = "\\" THEN "/" ELSE id[k]]

IsNotBrace(c) == c \notin {"{", "}"}

\* str::replace(&['{', '}'], "")
RemoveBraces(id) == SelectSeq(id, IsNotBrace)

sanitize_id_keeps_braces(id) ==
    IF ContainsSpecial(id) THEN ReplaceBackslash(id) ELSE id

RECURSIVE ReplaceFirstBackslash(_)
ReplaceFirstBackslash(id) ==
    IF id = <<>> THEN <<>>
    ELSE IF Head(id) = "\\" THEN <<"/">> \o Tail(id)
    ELSE <<Head(id)>> \o ReplaceFirstBackslash(Tail(id))

sanitize_id_first_backslash(id) ==
    IF ContainsSpecial(id) THEN RemoveBraces(ReplaceFirstBackslash(id)) ELSE id

\* IdRegistry::sanitize_id
sanitize_id(id) ==
    IF ContainsSpecial(id) THEN RemoveBraces(ReplaceBackslash(id)) ELSE id

(***************************************************************************)
(* IdRegistry.  Each operation returns the new set (ids) and the value     *)
(* returned (res, an Option<String>).  finalize returns a String: panic    *)
(* says that its Option::unwrap met None.                                  *)
(***************************************************************************)
Ret(ids, res) == [ids |-> ids, res |-> res, panic |-> FALSE]

insert_always_some(ids, id) ==
    Ret(ids \cup {sanitize_id(id)}, Some(sanitize_id(id)))

insert_unsanitized(ids, id) ==
    IF id \notin ids THEN Ret(ids \cup {id}, Some(id)) ELSE Ret(ids, None)

\* IdRegistry::insert
insert(ids, id) ==
    LET s == sanitize_id(id)
    IN  IF s \notin ids THEN Ret(ids \cup {s}, Some(s)) ELSE Ret(ids, None)

\* IdRegistry::try_insert_with; id is the value of the closure, which the
\* code evaluates only when prev is None
try_insert_with(ids, prev, id) ==
    IF IsSome(prev) THEN Ret(ids, prev)
    ELSE IF IsSome(id)
         THEN LET s == sanitize_id(Unwrap(id))
              IN  IF s \notin ids THEN Ret(ids \cup {s}, Some(s)) ELSE Ret(ids, None)
         ELSE Ret(ids, None)

\* IdRegistry::finalize: try_insert_with(prev, || Some(id())).unwrap()
finalize(ids, prev, id) ==
    LET r == try_insert_with(ids, prev, Some(id))
    IN  [ids |-> r.ids, res |-> r.res, panic |-> ~IsSome(r.res)]

\* InsertId::indexed
indexed(ids, prev, i) == finalize(ids, prev, <<"index:">> \o Dec(i))

(***************************************************************************)
(* The backends compiled in: build.rs emits one has-* cfg per backend the  *)
(* target supports and the cargo features ask for.                         *)
(***************************************************************************)
Targets == {"macos", "unix", "windows"}
Features == {"ddc-i2c", "ddc-macos", "ddc-winapi", "nvapi"}

\* build.rs main()
emit_features(target, feats) ==
    (IF target = "macos"
     THEN (IF "ddc-macos" \in feats THEN {"macos"} ELSE {})
     ELSE IF target = "unix"
          THEN (IF "ddc-i2c" \in feats THEN {"i2c"} ELSE {})
          ELSE {})
    \cup
    (IF target = "windows"
     THEN (IF "ddc-winapi" \in feats THEN {"winapi"} ELSE {})
          \cup (IF "nvapi" \in feats THEN {"nvapi"} ELSE {})
     ELSE {})

\* The outer iterator of a nested enumeration (the gpus of nvapi, the outputs
\* of winapi): outer is its enumerate() index, open says that an inner
\* iterator (a gpu's display ids, an output's physical monitors) is being
\* drained, subi is the inner index, name what the outer item is called, and
\* drain that winapi's chain has reached the leftover device-info entries.
NoSub == [open |-> FALSE, outer |-> 0, subi |-> 0, name |-> None, drain |-> FALSE]

IsEnabled(b) == b \in enabled

\* Display::enumerate_all: the chain of the cfg'd-in backends, in source order
Chain == SelectSeq(<<"i2c", "winapi", "macos", "nvapi">>, IsEnabled)

Cur == IF bk <= Len(Chain) THEN Chain[bk] ELSE "end"

\* The parts of Handle::WinApi { monitor, monitor_info } that are Some; the
\* handles of the other backends have no optional part.
Parts(m, i) == [monitor |-> m, monitor_info |-> i]
NoParts == Parts(FALSE, FALSE)

\* Display::new(handle, id), the error of one item of a backend's iterator,
\* and the error of a backend's enumeration call (from says which)
OkItem(b, id, h) == [ok |-> TRUE, backend |-> b, id |-> id, handle |-> h, from |-> "item"]
ErrItem(b) ==
    [ok |-> FALSE, backend |-> b, id |-> <<>>, handle |-> NoParts, from |-> "item"]
CallErr(b) ==
    [ok |-> FALSE, backend |-> b, id |-> <<>>, handle |-> NoParts, from |-> "call"]

IsOk(item) == item.ok

(***************************************************************************)
(* Result<T, Error> (error.rs) and the EDID read of a handle (handle.rs).  *)
(* An EDID is the sequence of its 128-byte blocks.                         *)
(***************************************************************************)
Ok(v) == [ok |-> TRUE, val |-> Some(v), err |-> "none"]
Err(e) == [ok |-> FALSE, val |-> None, err |-> e]
Unit == "()"

unsupported_ok_passes_on(res) == IF res.ok THEN Ok(res.val) ELSE res

\* Error::unsupported_ok
unsupported_ok(res) ==
    IF ~res.ok /\ res.err = "UnsupportedOp" THEN Ok(None)
    ELSE IF res.ok THEN Ok(res.val) ELSE res

\* what the device behind a handle answers to an EDID read: its EDID, or a
\* transport error
DeviceEdids == { <<"DEL0">>, <<"DEL0", "DEL1">> }
DeviceReads == {Ok(e) : e \in DeviceEdids} \cup {Err("io")}

Min(a, b) == IF a < b THEN a ELSE b

\* impl Edid for Handle: read_edid(0, data) into a buffer of len blocks;
\* Ok(number of blocks read) with the blocks, or the error
read_edid(backend, handle, dev, len) ==
    LET device == IF dev.ok
                  THEN Ok(SubSeq(Unwrap(dev.val), 1, Min(len, Len(Unwrap(dev.val)))))
                  ELSE Err("LowLevelError")
    IN  IF backend = "winapi"
        THEN (IF handle.monitor_info THEN device ELSE Err("UnsupportedOp"))
        ELSE IF backend = "macos" THEN Err("UnsupportedOp")
        ELSE device

\* Handle::edid_data: a buffer of 0x80 bytes for nvapi, of 0x100 otherwise,
\* truncated to what was read
Handle_edid_data(backend, handle, dev) ==
    read_edid(backend, handle, dev, IF backend = "nvapi" THEN 1 ELSE 2)

\* what an update operation of a Display gives: the display after it, the
\* Result it returns, and the requests it sent to the handle
Updated(self, ret, sent) == [self |-> self, ret |-> ret, sent |-> sent]

update_edid_refetches(self, dev) ==
    LET res == unsupported_ok(Handle_edid_data(self.backend, self.handle, dev))
    IN  IF res.ok
        THEN Updated([self EXCEPT !.edid_data = Unwrap(res.val)], Ok(Unit), <<"edid">>)
        ELSE Updated(self, res, <<"edid">>)

\* Display::update_edid: nothing when the EDID is cached; else the handle's
\* EDID is read once, UnsupportedOp counting as Ok with no data
update_edid(self, dev) ==
    IF IsSome(self.edid_data) THEN Updated(self, Ok(Unit), <<>>)
    ELSE LET res == unsupported_ok(Handle_edid_data(self.backend, self.handle, dev))
         IN  IF res.ok
             THEN Updated([self EXCEPT !.edid_data = Unwrap(res.val)], Ok(Unit), <<"edid">>)
             ELSE Updated(self, res, <<"edid">>)

\* Display::new(handle, id) as Display::enumerate holds it
Display(item) ==
    [backend |-> item.backend, id |-> item.id, handle |-> item.handle, edid_data |-> None]

\* Display::enumerate: the map and the filter_map applied to one item of
\* enumerate_all(); the displays it adds to the Vec. The display is kept
\* whatever update_edid returns; an error item is logged and dropped.
prefetch(item, dev) ==
    IF ~item.ok THEN <<>> ELSE <<update_edid(Display(item), dev).self>>

\* what the devices answer during Display::enumerate: the answers to the
\* items at even and at odd places of enumerate_all()
PrefetchReads == [0..1 -> {Ok(<<"DEL0", "DEL1">>), Err("io")}]

\* one item of enumerate_all() is pulled by Display::enumerate
Yield(item) ==
    /\ yielded' = Append(yielded, item)
    /\ displays' = displays \o prefetch(item, edids[Len(yielded) % 2])

\* Display::enumerate: the error items are logged and dropped
Displays == SelectSeq(yielded, IsOk)

CountOf(b) == Cardinality({k \in 1..Len(yielded) : yielded[k].backend = b})

\* The last IdRegistry::insert call of the pass: its candidate, the registry
\* before and after it, what it returned, and what the caller's chain of
\* fallbacks ended with (fin.res the id, fin.panic a failed unwrap).
NoCall == [made |-> FALSE, cand |-> <<>>, before |-> {}, res |-> None, after |-> {},
           final |-> None, panic |-> FALSE]
Called(cand, before, r, fin) ==
    [made |-> TRUE, cand |-> cand, before |-> before, res |-> r.res, after |-> r.ids,
     final |-> fin.res, panic |-> fin.panic]

(***************************************************************************)
(* What the backends report.                                               *)
(***************************************************************************)
\* st_rdev of an i2c device node
RDevs == {5, 6}
\* metadata() of the opened device: the rdev, or an io error
Metadata == {Some(n) : n \in RDevs} \cup {None}
\* ddc_macos::Monitor::description()
Descriptions ==
    { <<"a">>, <<"a", "\\", "b">>, <<"a", "/", "b">>, <<"{", "a", "}">>,
      <<"index:", "1">> }
\* nvapi PhysicalGpu::short_name() or "NVAPI"
GpuNames == { <<"NVAPI">>, <<"G", "\\", "1">> }
\* nvapi display ids
DisplayIds == {1, 2}

\* One item of a backend's iterator: the registry after it, and either the
\* display's id, Panic, or an error item.
Emit(b, r, h) ==
    IF r.panic
    THEN /\ pc' = "panic"
         /\ idreg' = r.ids
         /\ UNCHANGED <<yielded, displays>>
    ELSE /\ pc' = "enum"
         /\ idreg' = r.ids
         /\ Yield(OkItem(b, Unwrap(r.res), h))

EnumerateFailsEndsChain ==
    /\ pc = "enum" /\ Cur # "end" /\ ~started
    /\ Yield(CallErr(Cur))
    /\ bk' = Len(Chain) + 1
    /\ UNCHANGED <<enabled, edids, pc, started, pos, sub, idreg, call, nonEnumVars>>

\* enumerate_backend: the enumeration call of the backend fails; one error item
EnumerateFails ==
    /\ pc = "enum" /\ Cur # "end" /\ ~started
    /\ Yield(CallErr(Cur))
    /\ bk' = bk + 1
    /\ UNCHANGED <<enabled, edids, pc, started, pos, sub, idreg, call, nonEnumVars>>

\* enumerate_*: let mut idreg = IdRegistry::default(); the iterator is built
EnumerateStarts ==
    /\ pc = "enum" /\ Cur # "end" /\ ~started
    /\ started' = TRUE
    /\ idreg' = {}
    /\ pos' = 0
    /\ sub' = NoSub
    /\ UNCHANGED <<enabled, edids, pc, bk, yielded, call, displays, nonEnumVars>>

\* the backend's iterator is exhausted; the chain moves on
EnumerateEnds ==
    /\ pc = "enum" /\ Cur # "end" /\ started /\ ~sub.open
    /\ started' = FALSE
    /\ bk' = bk + 1
    /\ pos' = 0
    /\ sub' = NoSub
    /\ idreg' = {}
    /\ UNCHANGED <<enabled, edids, pc, yielded, call, displays, nonEnumVars>>

\* enumerate_i2c: ddc.open() fails for device i
I2cOpenFails ==
    /\ pc = "enum" /\ Cur = "i2c" /\ started /\ pos < MaxItems
    /\ Yield(ErrItem("i2c"))
    /\ pos' = pos + 1
    /\ UNCHANGED <<enabled, edids, pc, bk, started, sub, idreg, call, nonEnumVars>>

\* enumerate_i2c: device i opens; dev is the rdev string or the metadata error
I2cItem(dev) ==
    /\ pc = "enum" /\ Cur = "i2c" /\ started /\ pos < MaxItems
    /\ LET r1 == IF IsSome(dev) THEN insert(idreg, Dec(Unwrap(dev)))
                 ELSE Ret(idreg, None)
           r2 == indexed(r1.ids, r1.res, pos)
       IN  /\ Emit("i2c", r2, NoParts)
           /\ call' = IF IsSome(dev) THEN Called(Dec(Unwrap(dev)), idreg, r1, r2)
                      ELSE call
    /\ pos' = pos + 1
    /\ UNCHANGED <<enabled, edids, bk, started, sub, nonEnumVars>>

\* enumerate_macos: idreg.insert(ddc.description()).indexed(&mut idreg, i)
MacosItem(desc) ==
    /\ pc = "enum" /\ Cur = "macos" /\ started /\ pos < MaxItems
    /\ LET r1 == insert(idreg, desc)
           r2 == indexed(r1.ids, r1.res, pos)
       IN  /\ Emit("macos", r2, NoParts)
           /\ call' = Called(desc, idreg, r1, r2)
    /\ pos' = pos + 1
    /\ UNCHANGED <<enabled, edids, bk, started, sub, nonEnumVars>>

\* enumerate_nvapi: gpu i is reached; its connected display ids are listed
NvapiGpu(name) ==
    /\ pc = "enum" /\ Cur = "nvapi" /\ started /\ ~sub.open /\ sub.outer < MaxItems
    /\ sub' = [sub EXCEPT !.open = TRUE, !.subi = 0, !.name = Some(name)]
    /\ UNCHANGED <<enabled, edids, pc, bk, started, pos, idreg, yielded, call, displays, nonEnumVars>>

\* enumerate_nvapi: display_ids_connected fails for gpu i; one error item
NvapiGpuFails ==
    /\ pc = "enum" /\ Cur = "nvapi" /\ started /\ ~sub.open /\ sub.outer < MaxItems
    /\ Yield(ErrItem("nvapi"))
    /\ sub' = [sub EXCEPT !.outer = @ + 1]
    /\ UNCHANGED <<enabled, edids, pc, bk, started, pos, idreg, call, nonEnumVars>>

\* enumerate_nvapi: display subi of gpu i
NvapiItem(display_id) ==
    /\ pc = "enum" /\ Cur = "nvapi" /\ started /\ sub.open /\ sub.subi < MaxItems
    /\ LET cand == <<"displayid:">> \o Unwrap(sub.name) \o <<"/">> \o Dec(display_id)
           r1 == insert(idreg, cand)
           r2 == finalize(r1.ids, r1.res,
                          <<"index:">> \o Dec(sub.outer) \o <<".">> \o Dec(sub.subi))
       IN  /\ Emit("nvapi", r2, NoParts)
           /\ call' = Called(cand, idreg, r1, r2)
    /\ sub' = [sub EXCEPT !.subi = @ + 1]
    /\ UNCHANGED <<enabled, edids, bk, started, pos, nonEnumVars>>

\* enumerate_nvapi: the display ids of gpu i are exhausted
NvapiGpuEnds ==
    /\ pc = "enum" /\ Cur = "nvapi" /\ started /\ sub.open
    /\ sub' = [sub EXCEPT !.open = FALSE, !.outer = @ + 1, !.name = None]
    /\ UNCHANGED <<enabled, edids, pc, bk, started, pos, idreg, yielded, call, displays, nonEnumVars>>

(***************************************************************************)
(* enumerate_winapi: the id and the handle of one correlated record        *)
(* (monitor, mon_device, monitor_info), the item of index i of devs.       *)
(*   mon_device:   None, Some(Ok(mon))  [ok, id = mon.id()],               *)
(*                 Some(Err(dev))       [ok = FALSE]                       *)
(*   monitor_info: None, Some(Ok(info)) [ok, iid, hw: the two properties], *)
(*                 Some(Err(e))         [ok = FALSE]                       *)
(*   monitor:      None, Some((phy, hmon, i)) [ok = phy is Ok, i, ii,      *)
(*                 name = device name of hmon.info(), desc]                *)
(***************************************************************************)
MonOk(id) == Some([ok |-> TRUE, id |-> id])
MonErr == Some([ok |-> FALSE, id |-> <<>>])
InfoOk(iid, hw) == Some([ok |-> TRUE, iid |-> iid, hw |-> hw])
InfoErr == Some([ok |-> FALSE, iid |-> None, hw |-> None])
PhyOk(i, ii, name, desc) ==
    Some([ok |-> TRUE, i |-> i, ii |-> ii, name |-> name, desc |-> desc])
PhyErr(i) == Some([ok |-> FALSE, i |-> i, ii |-> 0, name |-> None, desc |-> <<>>])
Rec(monitor, mon_device, monitor_info) ==
    [monitor |-> monitor, mon_device |-> mon_device, monitor_info |-> monitor_info]

GenericPnP == <<"Generic PnP Monitor">>

\* lines 192-198: the monitor device's id, when a monitor device was matched
winapi_id_mon(ids, rec) ==
    IF IsSome(rec.mon_device) /\ Unwrap(rec.mon_device).ok
    THEN insert(ids, <<"mon:">> \o Unwrap(rec.mon_device).id)
    ELSE Ret(ids, None)

\* lines 199-212: the device-info properties; without a device info the id
\* found so far is dropped
winapi_id_info(r, rec) ==
    IF IsSome(rec.monitor_info) /\ Unwrap(rec.monitor_info).ok
    THEN LET simon == Unwrap(rec.monitor_info)
             iid == IF IsSome(simon.iid)
                    THEN Some(<<"si:iid:">> \o Unwrap(simon.iid)) ELSE None
             hw  == IF IsSome(simon.hw)
                    THEN Some(<<"si:hw:">> \o Unwrap(simon.hw)) ELSE None
             r1  == try_insert_with(r.ids, r.res, iid)
         IN  try_insert_with(r1.ids, r1.res, hw)
    ELSE Ret(r.ids, None)

hmoni(m) == <<"hmoni:">> \o Dec(m.i) \o <<"/">> \o Dec(m.ii)

\* lines 213-228: the physical monitor; without one the id found so far is
\* dropped
winapi_id_phy(r, rec) ==
    IF IsSome(rec.monitor) /\ Unwrap(rec.monitor).ok
    THEN LET m == Unwrap(rec.monitor)
             hmon == IF IsSome(m.name)
                     THEN Some(<<"hmon:">> \o Unwrap(m.name) \o <<"\\", "Monitor">> \o Dec(m.ii))
                     ELSE None
             desc == IF m.desc = GenericPnP THEN None ELSE Some(<<"desc:">> \o m.desc)
             r1 == try_insert_with(r.ids, r.res, hmon)
             r2 == try_insert_with(r1.ids, r1.res, desc)
             r3 == try_insert_with(r2.ids, r2.res, Some(hmoni(m)))
         IN  IF IsSome(r3.res) THEN r3 ELSE Ret(r3.ids, Some(hmoni(m)))
    ELSE Ret(r.ids, None)

\* lines 192-229
winapi_id(ids, rec, i) ==
    LET r == winapi_id_phy(winapi_id_info(winapi_id_mon(ids, rec), rec), rec)
    IN  indexed(r.ids, r.res, i)

winapi_handle_keeps_failed(rec) ==
    LET m  == IF ~IsSome(rec.monitor) THEN "none"
              ELSE IF Unwrap(rec.monitor).ok THEN "some" ELSE "err"
        si == IF ~IsSome(rec.monitor_info) THEN "none"
              ELSE IF Unwrap(rec.monitor_info).ok THEN "some" ELSE "err"
    IN  IF m = "none" /\ si = "none" THEN [kind |-> "todo", parts |-> NoParts]
        ELSE [kind |-> "ok", parts |-> Parts(m = "some", si = "some")]

\* lines 231-238: Option<Result<T>>::transpose of the two handles, and the
\* match on them; "err" returns Err(e), "todo" is the todo!() panic
winapi_handle(rec) ==
    LET m  == IF ~IsSome(rec.monitor) THEN "none"
              ELSE IF Unwrap(rec.monitor).ok THEN "some" ELSE "err"
        si == IF ~IsSome(rec.monitor_info) THEN "none"
              ELSE IF Unwrap(rec.monitor_info).ok THEN "some" ELSE "err"
    IN  IF m = "err" /\ si \in {"err", "none"} THEN [kind |-> "err", parts |-> NoParts]
        ELSE IF m = "none" /\ si = "err" THEN [kind |-> "err", parts |-> NoParts]
        ELSE IF m = "none" /\ si = "none" THEN [kind |-> "todo", parts |-> NoParts]
        ELSE [kind |-> "ok", parts |-> Parts(m = "some", si = "some")]

\* lines 191-242: one item of the iterator enumerate_winapi returns
WinapiRecord(rec) ==
    LET r1 == winapi_id_mon(idreg, rec)
        r  == winapi_id(idreg, rec, pos)
        h  == winapi_handle(rec)
    IN  /\ IF r.panic \/ h.kind = "todo"
           THEN pc' = "panic" /\ UNCHANGED <<yielded, displays>>
           ELSE /\ pc' = "enum"
                /\ Yield(IF h.kind = "err" THEN ErrItem("winapi")
                         ELSE OkItem("winapi", Unwrap(r.res), h.parts))
        /\ idreg' = r.ids
        /\ call' = IF IsSome(rec.mon_device) /\ Unwrap(rec.mon_device).ok
                   THEN Called(<<"mon:">> \o Unwrap(rec.mon_device).id, idreg, r1, r)
                   ELSE call
        /\ pos' = pos + 1

\* What the WinAPI sources report
MonIds == { <<"M", "\\", "{", "1", "}">>, <<"M", "/", "1">> }
InstanceIds == { Some(<<"D", "\\", "1">>), None }
HardwareIds == { Some(<<"H">>), None }
DeviceNames == { Some(<<"\\", "\\", ".", "\\", "D">>), None }
PhyDescriptions == { GenericPnP, <<"Dell">> }
MonDevices == {None, MonErr} \cup {MonOk(id) : id \in MonIds}
InfosOk == {InfoOk(iid, hw) : iid \in InstanceIds, hw \in HardwareIds}

\* lines 134-147: output i is reached; its physical monitors are listed
WinapiOutput(name) ==
    /\ pc = "enum" /\ Cur = "winapi" /\ started
    /\ ~sub.open /\ ~sub.drain /\ sub.outer < MaxItems
    /\ sub' = [sub EXCEPT !.open = TRUE, !.subi = 0, !.name = name]
    /\ UNCHANGED <<enabled, edids, pc, bk, started, pos, idreg, yielded, call, displays, nonEnumVars>>

\* lines 144-151: output.enumerate_monitors() fails; the record (Err(e),
\* disp_device.map(Err), None)
WinapiPhyErr(dev) ==
    /\ pc = "enum" /\ Cur = "winapi" /\ started
    /\ ~sub.open /\ ~sub.drain /\ sub.outer < MaxItems /\ pos < MaxItems
    /\ WinapiRecord(Rec(PhyErr(sub.outer), dev, None))
    /\ sub' = [sub EXCEPT !.outer = @ + 1]
    /\ UNCHANGED <<enabled, edids, bk, started, nonEnumVars>>

\* lines 152-166: physical monitor ii of output i, with the device info
\* entry found for it (and that entry's monitor device) or with none
WinapiPhys(desc, dev, si) ==
    /\ pc = "enum" /\ Cur = "winapi" /\ started
    /\ sub.open /\ sub.subi < MaxItems /\ pos < MaxItems
    /\ WinapiRecord(Rec(PhyOk(sub.outer, sub.subi, sub.name, desc), dev, si))
    /\ sub' = [sub EXCEPT !.subi = @ + 1]
    /\ UNCHANGED <<enabled, edids, bk, started, nonEnumVars>>

\* the physical monitors of output i are exhausted
WinapiOutputEnds ==
    /\ pc = "enum" /\ Cur = "winapi" /\ started /\ sub.open
    /\ sub' = [sub EXCEPT !.open = FALSE, !.outer = @ + 1, !.name = None]
    /\ UNCHANGED <<enabled, edids, pc, bk, started, pos, idreg, yielded, call, displays, nonEnumVars>>

\* lines 172-188: the outputs are exhausted; a device info entry no physical
\* monitor took, with its monitor device
WinapiLeftover(dev, si) ==
    /\ pc = "enum" /\ Cur = "winapi" /\ started
    /\ ~sub.open /\ pos < MaxItems
    /\ WinapiRecord(Rec(None, dev, si))
    /\ sub' = [sub EXCEPT !.drain = TRUE]
    /\ UNCHANGED <<enabled, edids, bk, started, nonEnumVars>>

\* Display::enumerate: the chain is exhausted and the list is collected
Collect ==
    /\ pc = "enum" /\ Cur = "end"
    /\ pc' = "done"
    /\ UNCHANGED <<enabled, edids, bk, started, pos, sub, idreg, yielded, call, displays, nonEnumVars>>

EnumInit ==
    /\ enabled \in {emit_features(t, f) : t \in Targets, f \in SUBSET Features}
    /\ pc = "enum"
    /\ bk = 1
    /\ started = FALSE
    /\ pos = 0
    /\ sub = NoSub
    /\ idreg = {}
    /\ yielded = <<>>
    /\ call = NoCall
    /\ displays = <<>>
    /\ edids \in PrefetchReads

EnumNext ==
    \/ EnumerateFails
    \/ EnumerateStarts
    \/ EnumerateEnds
    \/ I2cOpenFails
    \/ \E dev \in Metadata : I2cItem(dev)
    \/ \E desc \in Descriptions : MacosItem(desc)
    \/ \E name \in GpuNames : NvapiGpu(name)
    \/ NvapiGpuFails
    \/ \E d \in DisplayIds : NvapiItem(d)
    \/ NvapiGpuEnds
    \/ \E name \in DeviceNames : WinapiOutput(name)
    \/ \E dev \in {None, MonErr} : WinapiPhyErr(dev)
    \/ \E desc \in PhyDescriptions :
          \/ \E dev \in MonDevices, si \in InfosOk : WinapiPhys(desc, dev, si)
          \/ \E dev \in {None, MonErr} : WinapiPhys(desc, dev, None)
    \/ WinapiOutputEnds
    \/ \E dev \in MonDevices, si \in InfosOk : WinapiLeftover(dev, si)
    \/ WinapiLeftover(None, InfoErr)
    \/ Collect

(***************************************************************************)
(* IdRegistry::sanitize_id applied to a string, then to its own result.    *)
(***************************************************************************)
Chars == {"a", "/", "\\", "{", "}"}
Strings == UNION {[1..n -> Chars] : n \in 0..MaxLen}

SanInit == sanIn \in Strings /\ sanOut = sanIn /\ sanPrev = sanIn /\ sanN = 0

Sanitize ==
    /\ sanN < 2
    /\ sanPrev' = sanOut
    /\ sanOut' = sanitize_id(sanOut)
    /\ sanN' = sanN + 1
    /\ UNCHANGED <<sanIn, nonSanVars>>

(***************************************************************************)
(* DisplayInfo (display_info.rs).  The feature database is the set of its  *)
(* entries; an entry is a feature code with the protocol version whose     *)
(* table describes it, or with known = FALSE when only the capability      *)
(* string lists the code.                                                  *)
(***************************************************************************)
VCP_VERSION == 223       \* feature code 0xdf
VCP_LUMINANCE == 16      \* feature code 0x10, one more entry of every table

NoVersion == <<0, 0>>    \* mccs::Version::default()

Entry(code, ver, known) == [code |-> code, ver |-> ver, known |-> known]

\* mccs_db::Database::default()
EmptyDb == {}

\* mccs_db::Database::get(code)
DbGet(db, code) == {e \in db : e.code = code}

\* mccs_db::Database::from_version: the table of the version
from_version(ver) == {Entry(c, ver, TRUE) : c \in {VCP_LUMINANCE, VCP_VERSION}}

\* mccs_db::Database::apply_capabilities: the entries are those of the codes
\* the capability string lists
apply_capabilities(db, caps) ==
    {IF DbGet(db, c) # {} THEN CHOOSE e \in DbGet(db, c) : TRUE
     ELSE Entry(c, NoVersion, FALSE) : c \in caps.vcp_features}

OptFields ==
    {"manufacturer_id", "model_id", "version", "serial", "manufacture_year",
     "manufacture_week", "model_name", "serial_number", "edid_data", "mccs_version"}

\* DisplayInfo::new
new(backend, id) ==
    [backend |-> backend, id |-> id,
     manufacturer_id |-> None, model_id |-> None, version |-> None, serial |-> None,
     manufacture_year |-> None, manufacture_week |-> None, model_name |-> None,
     serial_number |-> None, edid_data |-> None, mccs_version |-> None,
     mccs_database |-> EmptyDb]

\* edid::parse: the EDID blocks of the model and what they decode to; a block
\* that does not parse decodes to ok = FALSE
EdidBlocks == {"edid-DEL", "edid-ACM", "edid-bad"}

Descriptor(kind, text) == [kind |-> kind, text |-> text]

edid_parse(data) ==
    IF data = "edid-DEL"
    THEN [ok |-> TRUE, vendor |-> "DEL", product |-> 41000, serial |-> 7,
          version |-> 1, revision |-> 3, year |-> 29, week |-> 12,
          descriptors |-> <<>>]
    ELSE IF data = "edid-ACM"
    THEN [ok |-> TRUE, vendor |-> "ACM", product |-> 4660, serial |-> 9,
          version |-> 1, revision |-> 4, year |-> 30, week |-> 1,
          descriptors |-> <<Descriptor("SerialNumber", "SN0"),
                            Descriptor("ProductName", "ACM27"),
                            Descriptor("SerialNumber", "SN1")>>]
    ELSE [ok |-> FALSE, vendor |-> "", product |-> 0, serial |-> 0,
          version |-> 0, revision |-> 0, year |-> 0, week |-> 0,
          descriptors |-> <<>>]

RECURSIVE LastOf(_, _)
\* the for loop over edid.descriptors: the last descriptor of a kind wins
LastOf(descs, kind) ==
    IF descs = <<>> THEN None
    ELSE LET rest == LastOf(Tail(descs), kind)
         IN  IF IsSome(rest) THEN rest
             ELSE IF Head(descs).kind = kind THEN Some(Head(descs).text)
             ELSE None

from_edid_zero_version(backend, id, edid_data) ==
    LET edid == edid_parse(edid_data)
    IN  [ok |-> edid.ok,
         info |->
            [backend |-> backend, id |-> id,
             edid_data |-> Some(edid_data),
             manufacturer_id |-> Some(edid.vendor),
             model_id |-> Some(edid.product),
             serial |-> Some(edid.serial),
             version |-> Some(<<edid.version, edid.revision>>),
             manufacture_year |-> Some(edid.year),
             manufacture_week |-> Some(edid.week),
             model_name |-> LastOf(edid.descriptors, "ProductName"),
             serial_number |-> LastOf(edid.descriptors, "SerialNumber"),
             mccs_version |-> Some(NoVersion),
             mccs_database |-> EmptyDb]]

\* DisplayInfo::from_edid: ok = FALSE is the Err of a block that does not parse
from_edid(backend, id, edid_data) ==
    LET edid == edid_parse(edid_data)
    IN  [ok |-> edid.ok,
         info |->
            [backend |-> backend, id |-> id,
             edid_data |-> Some(edid_data),
             manufacturer_id |-> Some(edid.vendor),
             model_id |-> Some(edid.product),
             serial |-> Some(edid.serial),
             version |-> Some(<<edid.version, edid.revision>>),
             manufacture_year |-> Some(edid.year),
             manufacture_week |-> Some(edid.week),
             model_name |-> LastOf(edid.descriptors, "ProductName"),
             serial_number |-> LastOf(edid.descriptors, "SerialNumber"),
             mccs_version |-> None,
             mccs_database |-> EmptyDb]]

update_from_overwrites(self, inf) ==
    LET Fill(f) == IF IsSome(inf[f]) THEN inf[f] ELSE self[f]
        reset == DbGet(self.mccs_database, VCP_VERSION) = {}
    IN  [backend |-> self.backend, id |-> self.id,
         manufacturer_id |-> Fill("manufacturer_id"),
         model_id |-> Fill("model_id"),
         version |-> Fill("version"),
         serial |-> Fill("serial"),
         manufacture_year |-> Fill("manufacture_year"),
         manufacture_week |-> Fill("manufacture_week"),
         model_name |-> Fill("model_name"),
         serial_number |-> Fill("serial_number"),
         edid_data |-> Fill("edid_data"),
         mccs_version |-> Fill("mccs_version"),
         mccs_database |-> IF reset THEN inf.mccs_database ELSE self.mccs_database]

update_from_reset_default(self, inf) ==
    LET Fill(f) == IF ~IsSome(self[f]) THEN inf[f] ELSE self[f]
        reset == DbGet(self.mccs_database, VCP_VERSION) = {}
    IN  [backend |-> self.backend, id |-> self.id,
         manufacturer_id |-> Fill("manufacturer_id"),
         model_id |-> Fill("model_id"),
         version |-> Fill("version"),
         serial |-> Fill("serial"),
         manufacture_year |-> Fill("manufacture_year"),
         manufacture_week |-> Fill("manufacture_week"),
         model_name |-> Fill("model_name"),
         serial_number |-> Fill("serial_number"),
         edid_data |-> Fill("edid_data"),
         mccs_version |-> IF reset THEN inf.mccs_version ELSE Fill("mccs_version"),
         mccs_database |-> IF reset /\ IsSome(inf.mccs_version)
                           THEN from_version(Unwrap(inf.mccs_version))
                           ELSE self.mccs_database]

update_from_reset_on_empty(self, inf) ==
    LET Fill(f) == IF ~IsSome(self[f]) THEN inf[f] ELSE self[f]
        reset == self.mccs_database = EmptyDb
    IN  [backend |-> self.backend, id |-> self.id,
         manufacturer_id |-> Fill("manufacturer_id"),
         model_id |-> Fill("model_id"),
         version |-> Fill("version"),
         serial |-> Fill("serial"),
         manufacture_year |-> Fill("manufacture_year"),
         manufacture_week |-> Fill("manufacture_week"),
         model_name |-> Fill("model_name"),
         serial_number |-> Fill("serial_number"),
         edid_data |-> Fill("edid_data"),
         mccs_version |-> IF reset /\ IsSome(inf.mccs_version)
                          THEN inf.mccs_version ELSE Fill("mccs_version"),
         mccs_database |-> IF reset THEN inf.mccs_database ELSE self.mccs_database]

\* DisplayInfo::update_from
update_from(self, inf) ==
    LET Fill(f) == IF ~IsSome(self[f]) THEN inf[f] ELSE self[f]
        reset == DbGet(self.mccs_database, VCP_VERSION) = {}
    IN  [backend |-> self.backend, id |-> self.id,
         manufacturer_id |-> Fill("manufacturer_id"),
         model_id |-> Fill("model_id"),
         version |-> Fill("version"),
         serial |-> Fill("serial"),
         manufacture_year |-> Fill("manufacture_year"),
         manufacture_week |-> Fill("manufacture_week"),
         model_name |-> Fill("model_name"),
         serial_number |-> Fill("serial_number"),
         edid_data |-> Fill("edid_data"),
         mccs_version |-> IF reset /\ IsSome(inf.mccs_version)
                          THEN inf.mccs_version ELSE Fill("mccs_version"),
         mccs_database |-> IF reset THEN inf.mccs_database ELSE self.mccs_database]

\* mccs::Capabilities, as far as from_capabilities reads it
Caps(model, ver, edid, vcp) ==
    [model |-> model, mccs_version |-> ver, edid |-> edid, vcp_features |-> vcp]

\* lines 129-149: the record built from the capability string alone
caps_base(backend, id, caps) ==
    [backend |-> backend, id |-> id,
     model_name |-> caps.model,
     mccs_version |-> caps.mccs_version,
     edid_data |-> caps.edid,
     serial_number |-> None, manufacturer_id |-> None, model_id |-> None,
     serial |-> None, version |-> None, manufacture_year |-> None,
     manufacture_week |-> None,
     mccs_database |-> IF IsSome(caps.mccs_version)
                       THEN apply_capabilities(from_version(Unwrap(caps.mccs_version)), caps)
                       ELSE EmptyDb]

from_capabilities_merges_any(backend, id, caps) ==
    LET res == caps_base(backend, id, caps)
    IN  IF IsSome(caps.edid)
        THEN update_from(res, from_edid(backend, id, Unwrap(caps.edid)).info)
        ELSE res

\* DisplayInfo::from_capabilities
from_capabilities(backend, id, caps) ==
    LET res == caps_base(backend, id, caps)
    IN  IF IsSome(caps.edid) /\ from_edid(backend, id, Unwrap(caps.edid)).ok
        THEN update_from(res, from_edid(backend, id, Unwrap(caps.edid)).info)
        ELSE res

(***************************************************************************)
(* One DisplayInfo: constructed, then merged into.                         *)
(***************************************************************************)
TheBackend == "winapi"
TheId == <<"index:", "0">>

ModelNames == {Some("U2720Q"), None}
Versions == {Some(<<2, 1>>), Some(<<2, 2>>), None}
EmbeddedEdids == {Some(b) : b \in EdidBlocks} \cup {None}
FeatureLists == {{}, {VCP_LUMINANCE}, {VCP_LUMINANCE, VCP_VERSION}}
AllCaps ==
    {Caps(m, v, e, f) : m \in ModelNames, v \in Versions, e \in EmbeddedEdids,
                        f \in FeatureLists}

\* A record the caller filled in itself (the fields are pub)
Edited ==
    { [new(TheBackend, TheId) EXCEPT !.manufacturer_id = Some("XXX")],
      [new(TheBackend, TheId) EXCEPT !.mccs_version = Some(<<3, 0>>)],
      [new(TheBackend, TheId) EXCEPT !.model_name = Some("custom"),
                                     !.mccs_database = from_version(<<3, 0>>)] }

Sources ==
    {new(TheBackend, TheId)}
    \cup {from_edid(TheBackend, TheId, b).info : b \in {"edid-DEL", "edid-ACM"}}
    \cup {from_capabilities(TheBackend, TheId, c) : c \in AllCaps}
    \cup Edited

NoCaps == Caps(None, None, None, {})

MergeInit ==
    /\ info = new(TheBackend, TheId)
    /\ mprev = info /\ msrc = info /\ mcaps = NoCaps
    /\ mop = "new" /\ mcount = 0

\* let info = DisplayInfo::from_edid(backend, id, edid_data)?
FromEdid(data) ==
    /\ mop = "new"
    /\ from_edid(TheBackend, TheId, data).ok
    /\ info' = from_edid(TheBackend, TheId, data).info
    /\ mop' = "from_edid"
    /\ UNCHANGED <<mprev, msrc, mcaps, mcount, nonMergeVars>>

\* let info = DisplayInfo::from_capabilities(backend, id, &caps)
FromCapabilities(caps) ==
    /\ mop = "new"
    /\ info' = from_capabilities(TheBackend, TheId, caps)
    /\ mcaps' = caps
    /\ mop' = "from_capabilities"
    /\ UNCHANGED <<mprev, msrc, mcount, nonMergeVars>>

\* the caller edits the record it holds
Edit(e) ==
    /\ mop = "new"
    /\ info' = e
    /\ mop' = "edited"
    /\ UNCHANGED <<mprev, msrc, mcaps, mcount, nonMergeVars>>

\* info.update_from(&src)
UpdateFrom(src) ==
    /\ mcount < MaxMerges
    /\ mprev' = info
    /\ msrc' = src
    /\ info' = update_from(info, src)
    /\ mop' = "update_from"
    /\ mcount' = mcount + 1
    /\ UNCHANGED <<mcaps, nonMergeVars>>

MergeNext ==
    \/ \E data \in EdidBlocks : FromEdid(data)
    \/ \E caps \in AllCaps : FromCapabilities(caps)
    \/ \E e \in Edited : Edit(e)
    \/ \E src \in Sources \cup {info} : UpdateFrom(src)

(***************************************************************************)
(* The Display aggregate: a handle, its DisplayInfo, the cached EDID, and   *)
(* the update operations. What the device answers to a request is an input *)
(* of each operation.                                                      *)
(***************************************************************************)
\* the capability string of a device: one that spells caps, or a malformed one
CapString(caps) == [parses |-> TRUE, caps |-> caps]
Malformed == [parses |-> FALSE, caps |-> NoCaps]

\* mccs_caps::parse_capabilities
parse_capabilities(string) ==
    IF string.parses THEN Ok(string.caps) ELSE Err("CapabilitiesParseError")

capabilities_string_wraps(backend, handle, dev) ==
    IF backend = "winapi" /\ ~handle.monitor THEN Err("CapabilitiesReadError")
    ELSE IF dev.ok THEN dev ELSE Err("CapabilitiesReadError")

\* impl Ddc for Handle: capabilities_string
capabilities_string(backend, handle, dev) ==
    IF backend = "winapi" /\ ~handle.monitor THEN Err("UnsupportedOp")
    ELSE IF dev.ok THEN dev ELSE Err("CapabilitiesReadError")

\* Handle::capabilities
capabilities(backend, handle, dev) ==
    LET string == capabilities_string(backend, handle, dev)
    IN  IF string.ok THEN parse_capabilities(Unwrap(string.val)) ELSE string

\* impl Ddc for Handle: get_vcp_feature(0xdf); the value's sh and sl bytes
get_vcp_feature(backend, handle, dev) ==
    IF backend = "winapi" /\ ~handle.monitor THEN Err("UnsupportedOp")
    ELSE IF dev.ok THEN dev ELSE Err("LowLevelError")

\* impl Ddc for Handle: set_vcp_feature
set_vcp_feature(backend, handle, dev) ==
    IF backend = "winapi" /\ ~handle.monitor THEN Err("UnsupportedOp")
    ELSE IF dev.ok THEN dev ELSE Err("LowLevelError")

\* impl Ddc for Handle: save_current_settings
save_current_settings(backend, handle, dev) ==
    IF backend = "winapi" /\ ~handle.monitor THEN Err("UnsupportedOp")
    ELSE IF dev.ok THEN dev ELSE Err("LowLevelError")

\* impl Ddc for Handle: get_timing_report
get_timing_report(backend, handle, dev) ==
    IF backend = "winapi" /\ ~handle.monitor THEN Err("UnsupportedOp")
    ELSE IF dev.ok THEN dev ELSE Err("LowLevelError")

\* impl DdcTable for Handle: table_read
table_read(backend, handle, dev) ==
    IF backend = "winapi" THEN Err("UnsupportedOp")
    ELSE IF dev.ok THEN dev ELSE Err("LowLevelError")

\* impl DdcTable for Handle: table_write
table_write(backend, handle, dev) ==
    IF backend = "winapi" THEN Err("UnsupportedOp")
    ELSE IF dev.ok THEN dev ELSE Err("LowLevelError")

\* Handle::mccs_version
mccs_version(backend, handle, dev) ==
    LET version == get_vcp_feature(backend, handle, dev)
    IN  IF ~version.ok THEN version
        ELSE IF Unwrap(version.val) # NoVersion THEN Ok(version.val) ELSE Ok(None)

update_from_ddc_takes_zero(self, backend, handle, dev) ==
    IF IsSome(self.mccs_version) THEN Updated(self, Ok(Unit), <<>>)
    ELSE LET version == get_vcp_feature(backend, handle, dev)
         IN  IF ~version.ok THEN Updated(self, version, <<"vcp">>)
             ELSE Updated([self EXCEPT !.mccs_version = version.val,
                                       !.mccs_database = from_version(Unwrap(version.val))],
                          Ok(Unit), <<"vcp">>)

\* DisplayInfo::update_from_ddc; self is the DisplayInfo
update_from_ddc(self, backend, handle, dev) ==
    IF IsSome(self.mccs_version) THEN Updated(self, Ok(Unit), <<>>)
    ELSE LET version == get_vcp_feature(backend, handle, dev)
         IN  IF ~version.ok THEN Updated(self, version, <<"vcp">>)
             ELSE IF Unwrap(version.val) # NoVersion
                  THEN Updated([self EXCEPT !.mccs_version = version.val,
                                            !.mccs_database =
                                                from_version(Unwrap(version.val))],
                               Ok(Unit), <<"vcp">>)
                  ELSE Updated(self, Ok(Unit), <<"vcp">>)

\* Display::update_from_ddc
Display_update_from_ddc(self, dev) ==
    LET u == update_from_ddc(self.info, self.backend, self.handle, dev)
    IN  Updated([self EXCEPT !.info = u.self], u.ret, u.sent)

\* Display::update_version
update_version(self, dev) == Display_update_from_ddc(self, dev)

update_capabilities_merges_only(self, dev) ==
    IF ~self.filled_caps
    THEN LET caps == capabilities(self.backend, self.handle, dev)
             inf  == from_capabilities(self.backend, self.id, Unwrap(caps.val))
         IN  IF ~caps.ok THEN Updated(self, caps, <<"caps">>)
             ELSE Updated([self EXCEPT !.info = update_from(self.info, inf)],
                          Ok(Unit), <<"caps">>)
    ELSE Updated(self, Ok(Unit), <<>>)

update_capabilities_clears_first(self, dev) ==
    IF ~self.filled_caps
    THEN LET caps == capabilities(self.backend, self.handle, dev)
             inf  == from_capabilities(self.backend, self.id, Unwrap(caps.val))
             target == [self.info EXCEPT !.mccs_database = EmptyDb]
         IN  IF ~caps.ok THEN Updated([self EXCEPT !.info = target], caps, <<"caps">>)
             ELSE Updated([self EXCEPT !.info = update_from(target, inf)],
                          Ok(Unit), <<"caps">>)
    ELSE Updated(self, Ok(Unit), <<>>)

\* Display::update_capabilities
update_capabilities(self, dev) ==
    IF ~self.filled_caps
    THEN LET caps == capabilities(self.backend, self.handle, dev)
             inf  == from_capabilities(self.backend, self.id, Unwrap(caps.val))
             target == IF IsSome(inf.mccs_version)
                       THEN [self.info EXCEPT !.mccs_database = EmptyDb]
                       ELSE self.info
         IN  IF ~caps.ok THEN Updated(self, caps, <<"caps">>)
             ELSE Updated([self EXCEPT !.info = update_from(target, inf)],
                          Ok(Unit), <<"caps">>)
    ELSE Updated(self, Ok(Unit), <<>>)

\* what an operation made of update steps gives: as Updated, with the steps
\* it ran
Ran(steps, u, sent) == [self |-> u.self, ret |-> u.ret, sent |-> sent, steps |-> steps]

Skipped(self) == Updated(self, Ok(Unit), <<>>)

update_fast_always_caps(self, force_caps, ans) ==
    LET e == update_edid(self, ans.edid)
        c == update_capabilities(e.self, ans.caps)
        runv == ~IsSome(c.self.info.mccs_version)
        v == IF runv THEN update_version(c.self, ans.vcp) ELSE Skipped(c.self)
    IN  IF ~e.ret.ok THEN Ran(<<"update_edid">>, e, e.sent)
        ELSE IF ~c.ret.ok
             THEN Ran(<<"update_edid", "update_capabilities">>, c, e.sent \o c.sent)
             ELSE Ran(<<"update_edid", "update_capabilities">>
                          \o (IF runv THEN <<"update_version">> ELSE <<>>),
                      v, e.sent \o c.sent \o v.sent)

\* Display::update_fast
update_fast(self, force_caps, ans) ==
    LET e == update_edid(self, ans.edid)
        runc == force_caps \/ ~IsSome(e.self.edid_data)
        c == IF runc THEN update_capabilities(e.self, ans.caps) ELSE Skipped(e.self)
        runv == ~IsSome(c.self.info.mccs_version)
        v == IF runv THEN update_version(c.self, ans.vcp) ELSE Skipped(c.self)
        csteps == <<"update_edid">> \o (IF runc THEN <<"update_capabilities">> ELSE <<>>)
    IN  IF ~e.ret.ok THEN Ran(<<"update_edid">>, e, e.sent)
        ELSE IF ~c.ret.ok THEN Ran(csteps, c, e.sent \o c.sent)
             ELSE Ran(csteps \o (IF runv THEN <<"update_version">> ELSE <<>>),
                      v, e.sent \o c.sent \o v.sent)

\* Display::update_all
update_all(self, ans) ==
    LET e == update_edid(self, ans.edid)
        c == update_capabilities(e.self, ans.caps)
        v == update_version(c.self, ans.vcp)
    IN  IF ~e.ret.ok THEN Ran(<<"update_edid">>, e, e.sent)
        ELSE IF ~c.ret.ok
             THEN Ran(<<"update_edid", "update_capabilities">>, c, e.sent \o c.sent)
             ELSE Ran(<<"update_edid", "update_capabilities", "update_version">>,
                      v, e.sent \o c.sent \o v.sent)

\* the handles: the backend and, for WinApi, the parts that are Some
Handles ==
    {[backend |-> b, handle |-> NoParts] : b \in {"i2c", "macos", "nvapi"}}
    \cup {[backend |-> "winapi", handle |-> h] :
             h \in {Parts(TRUE, TRUE), Parts(TRUE, FALSE), Parts(FALSE, TRUE)}}

\* Display::new(handle, info)
NewDisplay(h, inf) ==
    [backend |-> h.backend, id |-> inf.id, handle |-> h.handle, edid_data |-> None,
     info |-> inf, filled_caps |-> FALSE]

\* what the device answers to the capabilities request and to the request
\* for feature 0xDF
DeviceCaps ==
    {Ok(CapString(c)) :
        c \in {Caps(Some("U2720Q"), Some(<<2, 1>>), None, {VCP_LUMINANCE, VCP_VERSION}),
               Caps(Some("P2415Q"), Some(<<2, 2>>), None, {VCP_LUMINANCE}),
               Caps(None, None, Some("edid-ACM"), {VCP_LUMINANCE})}}
    \cup {Ok(Malformed), Err("io")}
DeviceVcp == {Ok(<<0, 0>>), Ok(<<2, 1>>), Ok(<<2, 2>>), Err("io")}

Unasked == Err("unasked")
Answers(edid, caps, vcp) == [edid |-> edid, caps |-> caps, vcp |-> vcp]
AllAnswers ==
    {Answers(e, c, v) : e \in DeviceReads, c \in DeviceCaps, v \in DeviceVcp}

Op(name, force_caps) == [name |-> name, force_caps |-> force_caps]
Out(u, steps) == [ret |-> u.ret, sent |-> u.sent, steps |-> steps]

\* capabilities the caller parsed itself and made the DisplayInfo of
CachedCaps == Caps(Some("P2415Q"), Some(<<2, 2>>), None, {VCP_LUMINANCE})

\* Display::new(handle, info): info is new(), from_edid() or
\* from_capabilities() of what the caller holds
DispInit ==
    /\ disp \in UNION {{NewDisplay(h, new(h.backend, TheId)),
                         NewDisplay(h, from_edid(h.backend, TheId, "edid-DEL").info),
                         NewDisplay(h, from_capabilities(h.backend, TheId, CachedCaps))} :
                        h \in Handles}
    /\ dprev = disp
    /\ dop = Op("new", FALSE)
    /\ dans = Answers(Unasked, Unasked, Unasked)
    /\ dout = Out(Skipped(disp), <<>>)
    /\ dcount = 0
    /\ dlog = <<>>

DispIdle ==
    /\ disp = None /\ dprev = None /\ dop = Op("idle", FALSE)
    /\ dans = Answers(Unasked, Unasked, Unasked)
    /\ dout = [ret |-> Ok(Unit), sent |-> <<>>, steps |-> <<>>]
    /\ dcount = 0
    /\ dlog = <<>>

\* the Display after an operation: u is what the operation gives
Operation(op, ans, u, steps) ==
    /\ dprev' = disp
    /\ disp' = u.self
    /\ dop' = op
    /\ dans' = ans
    /\ dout' = Out(u, steps)
    /\ dcount' = dcount + 1
    /\ dlog' = Append(dlog, [name |-> op.name, ok |-> u.ret.ok])
    /\ UNCHANGED nonDispVars

UpdateEdid(dev) ==
    /\ dcount < MaxUpdates
    /\ Operation(Op("update_edid", FALSE), Answers(dev, Unasked, Unasked),
                 update_edid(disp, dev), <<"update_edid">>)

UpdateCapabilities(dev) ==
    /\ dcount < MaxUpdates
    /\ Operation(Op("update_capabilities", FALSE), Answers(Unasked, dev, Unasked),
                 update_capabilities(disp, dev), <<"update_capabilities">>)

UpdateFromDdc(dev) ==
    /\ dcount < MaxUpdates
    /\ Operation(Op("update_from_ddc", FALSE), Answers(Unasked, Unasked, dev),
                 Display_update_from_ddc(disp, dev), <<"update_from_ddc">>)

\* what the device answers to a request that returns no data
DeviceAcks == {Ok(Unit), Err("io")}

\* the operations of impl Edid, Ddc and DdcTable for Handle, and what the
\* device may answer to each
HandleOps ==
    {"read_edid", "capabilities_string", "get_vcp_feature", "set_vcp_feature",
     "save_current_settings", "get_timing_report", "table_read", "table_write"}
DeviceAnswers(name) ==
    CASE name = "read_edid" -> DeviceReads
      [] name = "capabilities_string" -> DeviceCaps
      [] name = "get_vcp_feature" -> DeviceVcp
      [] OTHER -> DeviceAcks

\* display.handle.<name>(..): the match on *self of the operation
handle_call(name, backend, handle, dev) ==
    CASE name = "read_edid" -> read_edid(backend, handle, dev, 2)
      [] name = "capabilities_string" -> capabilities_string(backend, handle, dev)
      [] name = "get_vcp_feature" -> get_vcp_feature(backend, handle, dev)
      [] name = "set_vcp_feature" -> set_vcp_feature(backend, handle, dev)
      [] name = "save_current_settings" -> save_current_settings(backend, handle, dev)
      [] name = "get_timing_report" -> get_timing_report(backend, handle, dev)
      [] name = "table_read" -> table_read(backend, handle, dev)
      [] name = "table_write" -> table_write(backend, handle, dev)

\* the caller uses the handle of the Display directly (the field is pub)
HandleCall(name, dev) ==
    /\ dcount < MaxUpdates
    /\ Operation(Op(name, FALSE),
                 Answers(IF name = "read_edid" THEN dev ELSE Unasked,
                         IF name = "capabilities_string" THEN dev ELSE Unasked,
                         IF name \notin {"read_edid", "capabilities_string"}
                         THEN dev ELSE Unasked),
                 Updated(disp, handle_call(name, disp.backend, disp.handle, dev),
                         <<name>>),
                 <<name>>)

UpdateFast(force_caps, ans) ==
    /\ dcount < MaxUpdates
    /\ LET u == update_fast(disp, force_caps, ans)
       IN  Operation(Op("update_fast", force_caps), ans, u, u.steps)

UpdateAll(ans) ==
    /\ dcount < MaxUpdates
    /\ LET u == update_all(disp, ans)
       IN  Operation(Op("update_all", FALSE), ans, u, u.steps)

DispNext ==
    \/ \E dev \in DeviceReads : UpdateEdid(dev)
    \/ \E dev \in DeviceCaps : UpdateCapabilities(dev)
    \/ \E dev \in DeviceVcp : UpdateFromDdc(dev)
    \/ \E name \in HandleOps : \E dev \in DeviceAnswers(name) : HandleCall(name, dev)
    \/ \E force_caps \in BOOLEAN, ans \in AllAnswers : UpdateFast(force_caps, ans)
    \/ \E ans \in AllAnswers : UpdateAll(ans)

(***************************************************************************)
(* enumerate_winapi, lines 96-188: the correlation of the outputs' physical *)
(* monitors, the display devices' monitor devices and the entries of the   *)
(* DeviceInfoSet into the records (monitor, mon_device, monitor_info).     *)
(***************************************************************************)
\* DisplayDevice::enumerate()
DisplayDevs == <<"d1", "d2">>
DevSet == {DisplayDevs[k] : k \in 1..Len(DisplayDevs)}

\* a MonitorDevice: its id and MonitorDevice::display()
Monitor(id, display) == [id |-> id, display |-> display]
MonNames == <<"m1", "m2", "m3", "m4">>

DevIndex(d) == CHOOSE k \in 1..Len(DisplayDevs) : DisplayDevs[k] = d

\* lines 98-101: the monitor devices, display device by display device
MonitorLists ==
    {ms \in UNION {[1..n -> DevSet] : n \in 0..MaxMon} :
        \A j, k \in 1..Len(ms) : j < k => DevIndex(ms[j]) <= DevIndex(ms[k])}

NamedMonitors(ms) == [k \in 1..Len(ms) |-> Monitor(MonNames[k], ms[k])]

\* the second component of an entry of si_monitors
MatchedMon(mon) == Some([ok |-> TRUE, id |-> mon.id, display |-> mon.display])
MatchedDev(dev) == Some([ok |-> FALSE, id |-> "", display |-> dev])

\* an entry of si_monitors: Ok((info, mon)) or Err(e); n is its place in
\* enumerate_static(), where si_seen lists what each place held
SiOk(n, mon) == [n |-> n, ok |-> TRUE, mon |-> mon]
SiErr(n) == [n |-> n, ok |-> FALSE, mon |-> None]

RemoveNothing(vec, i) == vec

RemoveLast(vec, i) == SubSeq(vec, 1, Len(vec) - 1)

\* Vec::remove
RemoveAt(vec, i) == [k \in 1..(Len(vec) - 1) |-> IF k < i THEN vec[k] ELSE vec[k + 1]]

\* find_remove: the index of the first element find() accepts, 0 for none;
\* found[k] is what find() says of element k
FirstIndex(found) ==
    IF \E k \in 1..Len(found) : found[k]
    THEN CHOOSE k \in 1..Len(found) : found[k] /\ \A j \in 1..(k - 1) : ~found[j]
    ELSE 0

\* mondev_matches_info: info.matches_device(mon) is Ok(true) for the monitor
\* devices of match_mons, info.matches_device(dev) for the devices match_devs
mondev_matches_info(match_mons, match_devs, mon) ==
    IF mon.id \in match_mons THEN mon.display \in match_devs ELSE FALSE

\* mondisp
mondisp(mon) == mon.display

mon_matches_dispdev_any(disp_device, mon) == TRUE

\* mon_matches_dispdev
mon_matches_dispdev(disp_device, mon) ==
    LET dev == IF IsSome(mon) THEN Some(mondisp(Unwrap(mon))) ELSE None
    IN  dev = disp_device

Record(monitor, mon_device, monitor_info) ==
    [monitor |-> monitor, mon_device |-> mon_device, monitor_info |-> monitor_info]

\* the first component of a record: (Ok((physical_monitor, ii)), output, i)
\* or (Err(e), output, i)
HmonOk(i, ii) == Some([ok |-> TRUE, i |-> i, ii |-> ii])
HmonErr(i) == Some([ok |-> FALSE, i |-> i, ii |-> 0])

NoOutput == [open |-> FALSE, i |-> 0, ii |-> 0, disp_device |-> None]

CorrInit ==
    /\ cpc = "si"
    /\ all_monitors \in {NamedMonitors(ms) : ms \in MonitorLists}
    /\ monitor_devices = all_monitors
    /\ si_seen = <<>>
    /\ si_monitors = <<>>
    /\ output = NoOutput
    /\ records = <<>>

CorrIdle ==
    /\ cpc = "idle" /\ all_monitors = <<>> /\ monitor_devices = <<>> /\ si_seen = <<>>
    /\ si_monitors = <<>> /\ output = NoOutput /\ records = <<>>

\* lines 105-109: an entry whose DEVICE_IS_PRESENT property reads false is
\* filtered out
SiNotPresent ==
    /\ cpc = "si" /\ Len(si_seen) < MaxSi
    /\ si_seen' = Append(si_seen, "absent")
    /\ UNCHANGED <<cpc, all_monitors, monitor_devices, si_monitors, output, records,
                   nonCorrVars>>

\* lines 111-113: an entry the DeviceInfoSet could not retrieve stays Err(e)
SiFails ==
    /\ cpc = "si" /\ Len(si_seen) < MaxSi
    /\ si_seen' = Append(si_seen, "err")
    /\ si_monitors' = Append(si_monitors, SiErr(Len(si_seen) + 1))
    /\ UNCHANGED <<cpc, all_monitors, monitor_devices, output, records, nonCorrVars>>

\* lines 113-128: an entry is correlated with a monitor device, else with a
\* display device, else with nothing
SiInfo(match_mons, match_devs) ==
    /\ cpc = "si" /\ Len(si_seen) < MaxSi
    /\ LET Find(mon) == mondev_matches_info(match_mons, match_devs, mon)
           k == FirstIndex([j \in 1..Len(monitor_devices) |-> Find(monitor_devices[j])])
           disp_devices == SelectSeq(DisplayDevs, LAMBDA d : d \in match_devs)
       IN  IF k # 0
           THEN /\ si_monitors' = Append(si_monitors,
                                         SiOk(Len(si_seen) + 1, MatchedMon(monitor_devices[k])))
                /\ monitor_devices' = RemoveAt(monitor_devices, k)
           ELSE /\ si_monitors' = Append(si_monitors,
                        SiOk(Len(si_seen) + 1,
                             IF disp_devices # <<>> THEN MatchedDev(Head(disp_devices))
                             ELSE None))
                /\ UNCHANGED monitor_devices
    /\ si_seen' = Append(si_seen, "info")
    /\ UNCHANGED <<cpc, all_monitors, output, records, nonCorrVars>>

\* line 130: si_monitors is collected; the outputs are walked next
SiCollected ==
    /\ cpc = "si"
    /\ cpc' = "outputs"
    /\ UNCHANGED <<all_monitors, monitor_devices, si_seen, si_monitors, output, records,
                   nonCorrVars>>

\* lines 134-147: output i; disp_device is the display device its info
\* matches, if any; its physical monitors are listed
OutputOpens(disp_device) ==
    /\ cpc = "outputs" /\ ~output.open /\ output.i < MaxOut
    /\ output' = [open |-> TRUE, i |-> output.i, ii |-> 0, disp_device |-> disp_device]
    /\ UNCHANGED <<cpc, all_monitors, monitor_devices, si_seen, si_monitors, records,
                   nonCorrVars>>

\* lines 144-151: output.enumerate_monitors() fails
OutputFails(disp_device) ==
    /\ cpc = "outputs" /\ ~output.open /\ output.i < MaxOut
    /\ records' = Append(records,
                         Record(HmonErr(output.i),
                                IF IsSome(disp_device) THEN MatchedDev(Unwrap(disp_device))
                                ELSE None,
                                None))
    /\ output' = [NoOutput EXCEPT !.i = output.i + 1]
    /\ UNCHANGED <<cpc, all_monitors, monitor_devices, si_seen, si_monitors, nonCorrVars>>

\* lines 152-166: physical monitor ii of output i takes the first entry of
\* si_monitors whose display device is the output's
PhysicalMonitor ==
    /\ cpc = "outputs" /\ output.open /\ output.ii < MaxPhys
    /\ LET Find(entry) ==
               IF entry.ok THEN mon_matches_dispdev(output.disp_device, entry.mon)
               ELSE FALSE
           k == FirstIndex([j \in 1..Len(si_monitors) |-> Find(si_monitors[j])])
           hmon == HmonOk(output.i, output.ii)
           dev == IF IsSome(output.disp_device)
                  THEN MatchedDev(Unwrap(output.disp_device)) ELSE None
       IN  IF k # 0
           THEN /\ records' = Append(records,
                                     Record(hmon, si_monitors[k].mon,
                                            Some([ok |-> TRUE, n |-> si_monitors[k].n])))
                /\ si_monitors' = RemoveAt(si_monitors, k)
           ELSE /\ records' = Append(records, Record(hmon, dev, None))
                /\ UNCHANGED si_monitors
    /\ output' = [output EXCEPT !.ii = @ + 1]
    /\ UNCHANGED <<cpc, all_monitors, monitor_devices, si_seen, nonCorrVars>>

\* the physical monitors of output i are exhausted
OutputEnds ==
    /\ cpc = "outputs" /\ output.open
    /\ output' = [NoOutput EXCEPT !.i = output.i + 1]
    /\ UNCHANGED <<cpc, all_monitors, monitor_devices, si_seen, si_monitors, records,
                   nonCorrVars>>

\* lines 172-188: the outputs are exhausted; the entries left in si_monitors
\* are drained, one record each
Leftover ==
    /\ cpc \in {"outputs", "drain"} /\ ~output.open /\ si_monitors # <<>>
    /\ LET entry == Head(si_monitors)
       IN  records' = Append(records,
                IF entry.ok
                THEN Record(None, entry.mon, Some([ok |-> TRUE, n |-> entry.n]))
                ELSE Record(None, None, Some([ok |-> FALSE, n |-> entry.n])))
    /\ si_monitors' = Tail(si_monitors)
    /\ cpc' = "drain"
    /\ UNCHANGED <<all_monitors, monitor_devices, si_seen, output, nonCorrVars>>

\* devs is exhausted
Exhausted ==
    /\ cpc \in {"outputs", "drain"} /\ ~output.open /\ si_monitors = <<>>
    /\ cpc' = "done"
    /\ UNCHANGED <<all_monitors, monitor_devices, si_seen, si_monitors, output, records,
                   nonCorrVars>>

OptDevs == {Some(d) : d \in DevSet} \cup {None}

CorrNext ==
    \/ SiNotPresent
    \/ SiFails
    \/ \E match_mons \in SUBSET {all_monitors[k].id : k \in 1..Len(all_monitors)},
          match_devs \in SUBSET DevSet : SiInfo(match_mons, match_devs)
    \/ SiCollected
    \/ \E d \in OptDevs : OutputOpens(d)
    \/ \E d \in OptDevs : OutputFails(d)
    \/ PhysicalMonitor
    \/ OutputEnds
    \/ Leftover
    \/ Exhausted

(***************************************************************************)
(* The closure enumerate_winapi maps over devs (enumerate.rs:191-242),     *)
(* record by record: the id derivation and the assembly of the handle.     *)
(***************************************************************************)
\* the last record: the record, its index, the registry before and after,
\* the id the chain ended with, and what the assembly of the handle gave
NoRecord ==
    [made |-> FALSE, rec |-> Rec(None, None, None), i |-> 0, before |-> {},
     after |-> {}, id |-> None, panic |-> FALSE, kind |-> "none", parts |-> NoParts]
Recorded(rec, i, before, r, h) ==
    [made |-> TRUE, rec |-> rec, i |-> i, before |-> before, after |-> r.ids,
     id |-> r.res, panic |-> r.panic, kind |-> h.kind, parts |-> h.parts]

\* where devs stands: the index i of the next record, the output and the
\* physical monitor of it that come next, and whether the outputs are done
Place(i, out, ii, drain) == [i |-> i, out |-> out, ii |-> ii, drain |-> drain]

WinIdInit ==
    /\ wids = {}
    /\ wi = Place(0, 0, 0, FALSE)
    /\ wlast = NoRecord

WinIdIdle == wids = {} /\ wi = Place(0, 0, 0, FALSE) /\ wlast = NoRecord

\* lines 191-242 for one record of devs
Closure(rec) ==
    LET r == winapi_id(wids, rec, wi.i)
        h == winapi_handle(rec)
    IN  /\ wids' = r.ids
        /\ wlast' = Recorded(rec, wi.i, wids, r, h)
        /\ UNCHANGED nonWinIdVars

\* lines 144-151: the record of an output whose monitors cannot be listed
WinIdPhyErr(dev) ==
    /\ wi.i < MaxRecords /\ ~wi.drain /\ wi.ii = 0 /\ ~wlast.panic
    /\ Closure(Rec(PhyErr(wi.out), dev, None))
    /\ wi' = Place(wi.i + 1, wi.out + 1, 0, FALSE)

\* lines 152-166: the record of physical monitor ii of the output
WinIdPhys(name, desc, dev, si) ==
    /\ wi.i < MaxRecords /\ ~wi.drain /\ ~wlast.panic
    /\ Closure(Rec(PhyOk(wi.out, wi.ii, name, desc), dev, si))
    /\ wi' = Place(wi.i + 1, wi.out, wi.ii + 1, FALSE)

\* the physical monitors of the output are exhausted
WinIdOutputEnds ==
    /\ wi.i < MaxRecords /\ wi.out < MaxOut /\ ~wi.drain /\ ~wlast.panic
    /\ wi' = Place(wi.i, wi.out + 1, 0, FALSE)
    /\ UNCHANGED <<wids, wlast, nonWinIdVars>>

\* lines 172-188: the record of a device info entry no physical monitor took
WinIdLeftover(dev, si) ==
    /\ wi.i < MaxRecords /\ wi.ii = 0 /\ ~wlast.panic
    /\ Closure(Rec(None, dev, si))
    /\ wi' = Place(wi.i + 1, wi.out, 0, TRUE)

WinIdNext ==
    \/ \E dev \in {None, MonErr} : WinIdPhyErr(dev)
    \/ \E name \in DeviceNames, desc \in PhyDescriptions :
          \/ \E dev \in MonDevices, si \in InfosOk : WinIdPhys(name, desc, dev, si)
          \/ \E dev \in {None, MonErr} : WinIdPhys(name, desc, dev, None)
    \/ WinIdOutputEnds
    \/ \E dev \in MonDevices, si \in InfosOk : WinIdLeftover(dev, si)
    \/ WinIdLeftover(None, InfoErr)

(***************************************************************************)
(* Query: a predicate tree over a DisplayInfo.                             *)
(***************************************************************************)
\* enum Query: the variant, its String or Backend, and the Vec of an Or / And
QAny == [kind |-> "Any", arg |-> "", subs |-> <<>>]
QLeaf(kind, arg) == [kind |-> kind, arg |-> arg, subs |-> <<>>]
QOr(subs) == [kind |-> "Or", arg |-> "", subs |-> subs]
QAnd(subs) == [kind |-> "And", arg |-> "", subs |-> subs]

RECURSIVE matches_field_present(_, _)
matches_field_present(self, inf) ==
    CASE self.kind = "Any" -> TRUE
      [] self.kind = "Backend" -> inf.backend = self.arg
      [] self.kind = "Id" -> inf.id = self.arg
      [] self.kind = "ManufacturerId" -> IsSome(inf.manufacturer_id)
      [] self.kind = "ModelName" -> IsSome(inf.model_name)
      [] self.kind = "SerialNumber" -> IsSome(inf.serial_number)
      [] self.kind = "Or" ->
            \E k \in 1..Len(self.subs) : matches_field_present(self.subs[k], inf)
      [] self.kind = "And" ->
            \A k \in 1..Len(self.subs) : matches_field_present(self.subs[k], inf)

RECURSIVE matches(_, _)
RECURSIVE iter_any(_, _)
RECURSIVE iter_all(_, _)
\* Query::matches
matches(self, inf) ==
    CASE self.kind = "Any" -> TRUE
      [] self.kind = "Backend" -> inf.backend = self.arg
      [] self.kind = "Id" -> inf.id = self.arg
      [] self.kind = "ManufacturerId" -> inf.manufacturer_id = Some(self.arg)
      [] self.kind = "ModelName" -> inf.model_name = Some(self.arg)
      [] self.kind = "SerialNumber" -> inf.serial_number = Some(self.arg)
      [] self.kind = "Or" -> iter_any(self.subs, inf)
      [] self.kind = "And" -> iter_all(self.subs, inf)

\* query.iter().any(|q| q.matches(info)): false at the end of the Vec, true
\* at the first sub-query that matches
iter_any(subs, inf) ==
    IF subs = <<>> THEN FALSE
    ELSE IF matches(Head(subs), inf) THEN TRUE
    ELSE iter_any(Tail(subs), inf)

\* query.iter().all(|q| q.matches(info)): true at the end of the Vec, false
\* at the first sub-query that does not match
iter_all(subs, inf) ==
    IF subs = <<>> THEN TRUE
    ELSE IF ~matches(Head(subs), inf) THEN FALSE
    ELSE iter_all(Tail(subs), inf)

\* the Vecs of at most MaxWidth elements of a set
Vecs(S) == UNION {[1..n -> S] : n \in 0..MaxWidth}

QLeaves ==
    {QAny, QLeaf("ManufacturerId", "DEL"), QLeaf("ModelName", "U2720Q"),
     QLeaf("SerialNumber", "SN1")}

RECURSIVE Queries(_)
\* the queries that nest Or and And at most d deep
Queries(d) ==
    IF d = 0 THEN QLeaves
    ELSE LET below == Queries(d - 1)
         IN  below \cup {QOr(v) : v \in Vecs(below)} \cup {QAnd(v) : v \in Vecs(below)}

OtherId == <<"index:", "1">>

AllQueries ==
    Queries(MaxDepth)
    \cup {QLeaf("Backend", b) : b \in {"i2c", "winapi"}}
    \cup {QLeaf("Id", i) : i \in {TheId, OtherId}}

\* the DisplayInfo snapshots a query is matched against
QueryInfos ==
    {[new(b, i) EXCEPT !.manufacturer_id = man, !.model_name = model,
                       !.serial_number = sn] :
        b \in {"i2c", "winapi"}, i \in {TheId, OtherId},
        man \in {None, Some("DEL"), Some("ACM")},
        model \in {None, Some("U2720Q"), Some("U27")},
        sn \in {None, Some("SN1")}}

NoQCall == [called |-> FALSE, self |-> QAny, info |-> None, result |-> FALSE]

QueryInit ==
    /\ query \in AllQueries
    /\ qinfo \in QueryInfos
    /\ qcall = NoQCall

QueryIdle == query = QAny /\ qinfo = None /\ qcall = NoQCall

\* query.matches(&info): both arguments are shared references
Matches ==
    /\ ~qcall.called
    /\ qcall' = [called |-> TRUE, self |-> query, info |-> qinfo,
                 result |-> matches(query, qinfo)]
    /\ UNCHANGED <<query, qinfo, nonQueryVars>>

(***************************************************************************)
(* The specifications: one part of the library at a time.                  *)
(***************************************************************************)
EnumIdle ==
    /\ enabled = {} /\ pc = "idle" /\ bk = 1 /\ started = FALSE /\ pos = 0
    /\ sub = NoSub /\ idreg = {} /\ yielded = <<>> /\ call = NoCall /\ displays = <<>>
    /\ edids = <<>>

SanIdle == sanIn = <<>> /\ sanOut = <<>> /\ sanPrev = <<>> /\ sanN = 0

MergeIdle ==
    /\ info = None /\ mprev = None /\ msrc = None /\ mcaps = None
    /\ mop = "idle" /\ mcount = 0

SpecEnumInit ==
    EnumInit /\ SanIdle /\ MergeIdle /\ CorrIdle /\ DispIdle /\ QueryIdle /\ WinIdIdle
SpecEnum == SpecEnumInit /\ [][EnumNext]_vars

SpecSanitizeInit ==
    SanInit /\ EnumIdle /\ MergeIdle /\ CorrIdle /\ DispIdle /\ QueryIdle /\ WinIdIdle
SpecSanitize == SpecSanitizeInit /\ [][Sanitize]_vars

SpecMergeInit ==
    MergeInit /\ EnumIdle /\ SanIdle /\ CorrIdle /\ DispIdle /\ QueryIdle /\ WinIdIdle
SpecMerge == SpecMergeInit /\ [][MergeNext]_vars

SpecCorrInit ==
    CorrInit /\ EnumIdle /\ SanIdle /\ MergeIdle /\ DispIdle /\ QueryIdle /\ WinIdIdle
SpecCorr == SpecCorrInit /\ [][CorrNext]_vars

SpecDisplayInit ==
    DispInit /\ EnumIdle /\ SanIdle /\ MergeIdle /\ CorrIdle /\ QueryIdle /\ WinIdIdle
SpecDisplay == SpecDisplayInit /\ [][DispNext]_vars

SpecQueryInit ==
    QueryInit /\ EnumIdle /\ SanIdle /\ MergeIdle /\ CorrIdle /\ DispIdle /\ WinIdIdle
SpecQuery == SpecQueryInit /\ [][Matches]_vars

SpecWinIdInit ==
    WinIdInit /\ EnumIdle /\ SanIdle /\ MergeIdle /\ CorrIdle /\ DispIdle /\ QueryIdle
SpecWinId == SpecWinIdInit /\ [][WinIdNext]_vars

(***************************************************************************)
(* Properties of the enumeration pass and of the registry.                 *)
(***************************************************************************)

\* C1: when Display::enumerate() has returned, no two Displays of the
\* returned list have the same id, whatever the backends reported and
\* whichever backends are compiled in.
C1_UniqueIds ==
    pc = "done" =>
        \A j, k \in 1..Len(Displays) : j # k => Displays[j].id # Displays[k].id

\* a returned list of two displays, the second of which met a collision
C1_Witness ==
    /\ pc = "done" /\ Len(Displays) >= 2
    /\ call.made /\ ~IsSome(call.res)

\* C2: IdRegistry::insert decides on the sanitized candidate: not yet
\* registered, it is added and returned; registered, the call returns None
\* and leaves the registry as it was, and the id the caller ends with comes
\* from a later fallback.
C2_InsertDecides ==
    call.made =>
        LET s == sanitize_id(call.cand)
        IN  /\ s \notin call.before =>
                  call.res = Some(s) /\ call.after = call.before \cup {s}
            /\ s \in call.before =>
                  /\ call.res = None /\ call.after = call.before
                  /\ ~call.panic => IsSome(call.final) /\ Unwrap(call.final) # s

\* an insert that met a registered id, and the caller got a fallback id
C2_Witness ==
    /\ call.made /\ ~IsSome(call.res) /\ ~call.panic /\ IsSome(call.final)
    /\ sanitize_id(call.cand) \in call.before

\* C3: identity resolution never fails: finalize/indexed returns an id for
\* every position and every registry contents, it never panics, and the id
\* of every display differs from the ids assigned before it by the same
\* registry.
C3_ResolutionNeverFails ==
    /\ pc # "panic"
    /\ \A j, k \in 1..Len(yielded) :
          (j < k /\ yielded[j].ok /\ yielded[k].ok
                 /\ yielded[j].backend = yielded[k].backend)
              => yielded[j].id # yielded[k].id

\* C4: the id of every Display a backend enumeration yields holds no
\* backslash and no brace.
C4_IdsSanitized ==
    \A k \in 1..Len(yielded) : yielded[k].ok => ~ContainsSpecial(yielded[k].id)

\* a display whose id is a candidate that held a special character
C4_Witness ==
    /\ call.made /\ ContainsSpecial(call.cand) /\ IsSome(call.res)
    /\ call.final = call.res
    /\ yielded # <<>> /\ yielded[Len(yielded)].ok
    /\ yielded[Len(yielded)].id = Unwrap(call.res)

\* C5: sanitize_id is idempotent, and returns a string without backslash
\* and brace unchanged.
C5_SanitizeIdempotent ==
    /\ sanN = 2 => sanOut = sanPrev
    /\ (sanN = 1 /\ ~ContainsSpecial(sanIn)) => sanOut = sanIn

\* a string the first application changed, sanitized a second time
C5_Witness == sanN = 2 /\ sanPrev # sanIn /\ ContainsSpecial(sanIn)

(***************************************************************************)
(* Properties of the merge engine.                                         *)
(***************************************************************************)
Merged == mop = "update_from"

\* the reset rule applies to the last merge: the target had no entry for 0xDF
ResetApplied == DbGet(mprev.mccs_database, VCP_VERSION) = {}

\* C6: update_from never turns a present optional field absent and never
\* changes the value of a present field, except the protocol version and the
\* feature database under the reset rule, where they become the source's;
\* so over a sequence of merges a populated field stays populated.
C6_MergeMonotone ==
    Merged =>
        /\ \A f \in OptFields : IsSome(mprev[f]) => IsSome(info[f])
        /\ \A f \in OptFields \ {"mccs_version"} : IsSome(mprev[f]) => info[f] = mprev[f]
        /\ (IsSome(mprev.mccs_version) /\ info.mccs_version # mprev.mccs_version)
              => ResetApplied /\ info.mccs_version = msrc.mccs_version
        /\ info.mccs_database # mprev.mccs_database
              => ResetApplied /\ info.mccs_database = msrc.mccs_database

\* a second merge in a row, into a target with present fields, from a source
\* whose values differ
C6_Witness ==
    /\ Merged /\ mcount = 2
    /\ IsSome(mprev.manufacturer_id) /\ IsSome(msrc.manufacturer_id)
    /\ mprev.manufacturer_id # msrc.manufacturer_id
    /\ IsSome(mprev.mccs_version) /\ info.mccs_version # mprev.mccs_version

\* C7: update_from(a, a) leaves every field of a unchanged, the protocol
\* version and the feature database included when the database has no entry
\* for 0xDF.
C7_MergeIdempotent == (Merged /\ msrc = mprev) => info = mprev

\* a record with a version and a non-empty database without 0xDF, merged
\* with itself
C7_Witness ==
    /\ Merged /\ msrc = mprev
    /\ IsSome(mprev.mccs_version) /\ IsSome(mprev.manufacturer_id)
    /\ mprev.mccs_database # EmptyDb /\ ResetApplied

\* C8 as stated: without an entry for 0xDF in the target, its version and
\* its database both become the source's; with one, its database is kept.
C8_ResetTakesBoth ==
    Merged =>
        /\ ResetApplied => /\ info.mccs_version = msrc.mccs_version
                           /\ info.mccs_database = msrc.mccs_database
        /\ ~ResetApplied => info.mccs_database = mprev.mccs_database

\* C8, amended: without an entry for 0xDF in the target, its database
\* becomes the source's, also when it was not empty, and its version becomes
\* the source's when the source has one and is kept otherwise; with an entry
\* for 0xDF the database is left as it was.
C8_ResetRule ==
    Merged =>
        /\ ResetApplied =>
              /\ info.mccs_database = msrc.mccs_database
              /\ IsSome(msrc.mccs_version) => info.mccs_version = msrc.mccs_version
              /\ ~IsSome(msrc.mccs_version) => info.mccs_version = mprev.mccs_version
        /\ ~ResetApplied => info.mccs_database = mprev.mccs_database

\* a target with a version and a non-empty database without 0xDF takes the
\* version and the database of a source that has another version
C8_Witness ==
    /\ Merged /\ ResetApplied
    /\ mprev.mccs_database # EmptyDb /\ IsSome(mprev.mccs_version)
    /\ IsSome(msrc.mccs_version) /\ msrc.mccs_version # mprev.mccs_version
    /\ info.mccs_version = msrc.mccs_version
    /\ info.mccs_database = msrc.mccs_database

\* C9: with parsable EDID bytes in the capability data, every field the
\* capability string supplies (model name, protocol version, feature
\* database) keeps the capability value, and the EDID's values fill the
\* fields the capability string left absent.
C9_CapabilityWins ==
    (mop = "from_capabilities" /\ IsSome(mcaps.edid)
        /\ from_edid(TheBackend, TheId, Unwrap(mcaps.edid)).ok) =>
        LET base == caps_base(TheBackend, TheId, mcaps)
            edid == from_edid(TheBackend, TheId, Unwrap(mcaps.edid)).info
        IN  /\ IsSome(mcaps.model) => info.model_name = mcaps.model
            /\ IsSome(mcaps.mccs_version) =>
                  /\ info.mccs_version = mcaps.mccs_version
                  /\ info.mccs_database = base.mccs_database
            /\ \A f \in OptFields : ~IsSome(base[f]) => info[f] = edid[f]

(***************************************************************************)
(* Properties of the correlation                                           *)
(***************************************************************************)
\* every monitor device of the display devices is the mon_device of exactly
\* one record
MonitorDevicesOnce ==
    \A k \in 1..Len(all_monitors) :
        Cardinality({r \in 1..Len(records) :
                        records[r].mon_device = MatchedMon(all_monitors[k])}) = 1

\* no monitor device is the mon_device of two records
MonitorDevicesAtMostOnce ==
    \A k \in 1..Len(all_monitors) :
        Cardinality({r \in 1..Len(records) :
                        records[r].mon_device = MatchedMon(all_monitors[k])}) <= 1

\* every entry of the DeviceInfoSet that passed the presence filter is the
\* monitor_info of exactly one record
SiEntriesOnce ==
    \A n \in 1..Len(si_seen) :
        si_seen[n] # "absent" =>
            Cardinality({r \in 1..Len(records) :
                            /\ IsSome(records[r].monitor_info)
                            /\ Unwrap(records[r].monitor_info).n = n}) = 1

\* no physical monitor, and no output whose monitors could not be listed,
\* is the monitor of two records
PhysicalMonitorsOnce ==
    \A r1, r2 \in 1..Len(records) :
        (IsSome(records[r1].monitor) /\ records[r1].monitor = records[r2].monitor) => r1 = r2

\* C10: when the correlation is over, every element of every source list
\* (physical monitors of the outputs, monitor devices of the display
\* devices, entries of the DeviceInfoSet) is in exactly one record: none is
\* dropped and none is in two records.
C10_CorrelationComplete ==
    cpc = "done" => MonitorDevicesOnce /\ SiEntriesOnce /\ PhysicalMonitorsOnce

\* what the correlation does guarantee: nothing is in two records, and the
\* DeviceInfoSet entries and physical monitors are all there
CorrelationNoDuplicates ==
    /\ MonitorDevicesAtMostOnce /\ PhysicalMonitorsOnce
    /\ cpc = "done" => SiEntriesOnce

\* the display device a mon_device (or an entry's second component) is on
DisplayOf(mon) == IF IsSome(mon) THEN Some(mondisp(Unwrap(mon))) ELSE None

BothHandles(rec) ==
    /\ IsSome(rec.monitor) /\ Unwrap(rec.monitor).ok
    /\ IsSome(rec.monitor_info) /\ Unwrap(rec.monitor_info).ok

\* C11: a physical monitor of an output and a DeviceInfoSet entry whose
\* matched display device is the output's give one record with both
\* handles: no physical monitor is recorded without an entry while an entry
\* on its display device is in the pool, and an entry that is in a record
\* is neither in a second record nor left in the pool for the drain.
C11_Deduplication ==
    /\ \A r \in 1..Len(records) :
          (/\ IsSome(records[r].monitor) /\ Unwrap(records[r].monitor).ok
           /\ ~IsSome(records[r].monitor_info)) =>
              \A k \in 1..Len(si_monitors) :
                  si_monitors[k].ok =>
                      DisplayOf(si_monitors[k].mon) # DisplayOf(records[r].mon_device)
    /\ \A r \in 1..Len(records) :
          BothHandles(records[r]) =>
              /\ \A k \in 1..Len(si_monitors) :
                    si_monitors[k].n # Unwrap(records[r].monitor_info).n
              /\ \A r2 \in 1..Len(records) :
                    records[r2].monitor_info = records[r].monitor_info => r2 = r

\* two entries on the display device of an output with one physical
\* monitor: one record with both handles, then a leftover record of the
\* other entry
C11_Witness ==
    /\ cpc = "done" /\ Len(records) = 2
    /\ BothHandles(records[1])
    /\ IsSome(DisplayOf(records[1].mon_device))
    /\ ~IsSome(records[2].monitor) /\ IsSome(records[2].monitor_info)
    /\ DisplayOf(records[2].mon_device) = DisplayOf(records[1].mon_device)

\* the entries of the DeviceInfoSet paired with monitor device mon, in the
\* pool or in a record
EntriesPairedWith(mon) ==
    {si_monitors[k].n : k \in {j \in 1..Len(si_monitors) :
                                  si_monitors[j].ok /\ si_monitors[j].mon = MatchedMon(mon)}}
    \cup {Unwrap(records[r].monitor_info).n :
             r \in {j \in 1..Len(records) :
                       /\ IsSome(records[j].monitor_info)
                       /\ records[j].mon_device = MatchedMon(mon)}}

\* C12: no record is matched twice. A monitor device is paired with at most
\* one entry of the DeviceInfoSet and is out of its pool once paired; an
\* entry is in at most one record, so with at most one physical monitor;
\* no physical monitor and no entry is held by two records.
C12_NoDoubleMatch ==
    /\ \A m \in 1..Len(all_monitors) :
          /\ Cardinality(EntriesPairedWith(all_monitors[m])) <= 1
          /\ EntriesPairedWith(all_monitors[m]) # {} =>
                \A k \in 1..Len(monitor_devices) : monitor_devices[k] # all_monitors[m]
    /\ \A r1, r2 \in 1..Len(records) :
          /\ (IsSome(records[r1].monitor_info)
                /\ records[r1].monitor_info = records[r2].monitor_info) => r1 = r2
          /\ (IsSome(records[r1].monitor) /\ Unwrap(records[r1].monitor).ok
                /\ records[r1].monitor = records[r2].monitor) => r1 = r2

\* two monitor devices paired with two entries, each entry then paired with
\* a physical monitor
C12_Witness ==
    /\ cpc = "done" /\ Len(records) = 2
    /\ BothHandles(records[1]) /\ BothHandles(records[2])
    /\ \E m1, m2 \in 1..Len(all_monitors) :
          /\ m1 # m2
          /\ records[1].mon_device = MatchedMon(all_monitors[m1])
          /\ records[2].mon_device = MatchedMon(all_monitors[m2])

(***************************************************************************)
(* Properties of enumerate_all and enumerate                               *)
(***************************************************************************)
ChainIndex(b) == CHOOSE k \in 1..Len(Chain) : Chain[k] = b

\* the failure of a backend's enumeration call is one error item, the only
\* item of that backend, between the items of the backends before it and
\* those of the backends after it
CallErrorsAlone ==
    \A k \in 1..Len(yielded) :
        yielded[k].from = "call" =>
            LET b == yielded[k].backend
            IN  /\ ~yielded[k].ok
                /\ CountOf(b) = 1
                /\ bk > ChainIndex(b)
                /\ \A j \in 1..Len(yielded) :
                      /\ j < k => ChainIndex(yielded[j].backend) < ChainIndex(b)
                      /\ j > k => ChainIndex(yielded[j].backend) > ChainIndex(b)

\* the step that yields the error item of a failed enumeration call keeps
\* what was yielded and hands over to the next backend of the chain
CallErrorGoesOn ==
    (Len(yielded') > Len(yielded) /\ yielded'[Len(yielded')].from = "call") =>
        /\ Yield(CallErr(Cur))
        /\ pc' = "enum" /\ bk' = bk + 1 /\ ~started'

\* C13: when the enumeration call of a backend fails, the failure is one
\* error item, the only item of that backend; the items of the backends
\* before it are kept, and the chain goes on with the backend after it,
\* whose items follow.
C13_FailureIsolation == []CallErrorsAlone /\ [][CallErrorGoesOn]_vars

\* the call of the first backend fails and the second backend's display is
\* yielded after the error item
C13_Witness ==
    /\ pc = "done" /\ Len(yielded) = 2
    /\ yielded[1].from = "call" /\ yielded[1].backend = "winapi"
    /\ yielded[2].ok /\ yielded[2].backend = "nvapi"

\* the Vec of Display::enumerate holds one display per Ok item pulled from
\* enumerate_all(), in that order, whatever its EDID read answered
OneDisplayPerItem ==
    /\ Len(displays) = Len(Displays)
    /\ \A k \in 1..Len(displays) :
          /\ displays[k].backend = Displays[k].backend
          /\ displays[k].id = Displays[k].id
          /\ displays[k].handle = Displays[k].handle

\* C14: Display::enumerate() never aborts, and returns exactly one Display
\* per successfully enumerated item, in enumeration order: a display whose
\* EDID pre-fetch fails is still returned, and the error items are dropped
\* without affecting the other displays.
C14_EnumerateNeverAborts == pc # "panic" /\ OneDisplayPerItem

(***************************************************************************)
(* Properties of the update operations of a Display                        *)
(***************************************************************************)
\* what the handle's EDID read gave during the last operation
LastEdidRead == Handle_edid_data(dprev.backend, dprev.handle, dans.edid)

\* C15: when the handle's EDID read reports UnsupportedOp, update_edid()
\* returns Ok and the EDID cache stays empty; any other failure of the read
\* is returned as the error, and the display is as it was.
C15_UnsupportedTransparent ==
    (dop.name = "update_edid" /\ dout.sent = <<"edid">> /\ ~LastEdidRead.ok) =>
        IF LastEdidRead.err = "UnsupportedOp"
        THEN dout.ret = Ok(Unit) /\ disp.edid_data = None /\ disp = dprev
        ELSE dout.ret = LastEdidRead /\ disp = dprev

\* update_edid() on a macOS display, whose handle cannot read the EDID
C15_Witness ==
    /\ dop.name = "update_edid" /\ dout.sent = <<"edid">>
    /\ dprev.backend = "macos" /\ LastEdidRead = Err("UnsupportedOp")
    /\ dout.ret = Ok(Unit) /\ disp.edid_data = None

\* C16: once EDID bytes are cached, an update_edid() call sends no read to
\* the handle, returns Ok and leaves the cached bytes, and the display, as
\* they were.
C16_EdidFetchedOnce ==
    (dop.name = "update_edid" /\ IsSome(dprev.edid_data)) =>
        /\ dout.sent = <<>>
        /\ dout.ret = Ok(Unit)
        /\ disp = dprev

\* a second update_edid() after one that cached the EDID, the device now
\* answering with another EDID
C16_Witness ==
    /\ dop.name = "update_edid" /\ dcount = 2
    /\ IsSome(dprev.edid_data) /\ dans.edid.ok
    /\ dans.edid.val # dprev.edid_data

\* an update_capabilities() call returned Ok before the last operation
CapabilitiesFetchedBefore ==
    \E k \in 1..(Len(dlog) - 1) : dlog[k].name = "update_capabilities" /\ dlog[k].ok

\* C17: the capability string is fetched at most once per Display: after
\* an update_capabilities() call that returned Ok, a later call sends no
\* capabilities request to the handle and leaves the display's info as it
\* was.
C17_CapabilitiesFetchedOnce ==
    (dop.name = "update_capabilities" /\ CapabilitiesFetchedBefore) =>
        /\ dout.sent = <<>>
        /\ disp.info = dprev.info

\* what the handle's capabilities request gave during the last operation
LastCapabilities == capabilities(dprev.backend, dprev.handle, dans.caps)

\* the part of C18 about the other failures: a transport failure or a parse
\* failure of the capability string is returned as the error
CapabilitiesErrorsReturned ==
    (dop.name = "update_capabilities" /\ dout.sent = <<"caps">>
        /\ ~LastCapabilities.ok /\ LastCapabilities.err # "UnsupportedOp") =>
        dout.ret = LastCapabilities /\ disp = dprev

\* C18: when the handle's capabilities request reports UnsupportedOp,
\* update_capabilities() returns Ok, stores no capability data and leaves
\* the info as it was; a transport failure or a parse failure of the
\* capability string is returned as the error.
C18_CapabilitiesUnsupportedOk ==
    /\ (dop.name = "update_capabilities" /\ dout.sent = <<"caps">>
          /\ LastCapabilities = Err("UnsupportedOp")) =>
          dout.ret = Ok(Unit) /\ disp = dprev
    /\ CapabilitiesErrorsReturned

\* what the handle answered to the request for feature 0xDF during the last
\* operation
LastVcp == get_vcp_feature(dprev.backend, dprev.handle, dans.vcp)

\* C19: the live version query sends the request for feature 0xDF only when
\* no protocol version is known; with a known version it sends nothing and
\* changes nothing; a reply equal to the zero version leaves the version
\* absent and the feature database as it was; any other reply sets the
\* version and rebuilds the database from it.
C19_LiveVersionQuery ==
    dop.name = "update_from_ddc" =>
        IF IsSome(dprev.info.mccs_version)
        THEN dout.sent = <<>> /\ dout.ret = Ok(Unit) /\ disp = dprev
        ELSE /\ dout.sent = <<"vcp">>
             /\ (LastVcp.ok /\ Unwrap(LastVcp.val) = NoVersion) =>
                   /\ disp = dprev /\ dout.ret = Ok(Unit)
                   /\ mccs_version(dprev.backend, dprev.handle, dans.vcp) = Ok(None)
             /\ (LastVcp.ok /\ Unwrap(LastVcp.val) # NoVersion) =>
                   /\ disp.info = [dprev.info EXCEPT
                                      !.mccs_version = LastVcp.val,
                                      !.mccs_database = from_version(Unwrap(LastVcp.val))]
                   /\ dout.ret = Ok(Unit)
                   /\ mccs_version(dprev.backend, dprev.handle, dans.vcp).val
                          = Some(disp.info.mccs_version)

\* the device answers the zero version to a first query and 2.1 to a second
C19_Witness ==
    /\ dop.name = "update_from_ddc" /\ dcount = 2
    /\ dlog[1].name = "update_from_ddc" /\ dlog[1].ok
    /\ ~IsSome(dprev.info.mccs_version)
    /\ disp.info.mccs_version = Some(<<2, 1>>)
    /\ DbGet(disp.info.mccs_database, VCP_VERSION) # {}

AllSteps == <<"update_edid", "update_capabilities", "update_version">>

Ran_(step) == \E k \in 1..Len(dout.steps) : dout.steps[k] = step

\* the steps of the last operation are steps of AllSteps in that order
StepsInOrder ==
    \E keep \in SUBSET (1..3) :
        dout.steps = SelectSeq(AllSteps, LAMBDA st : \E k \in keep : AllSteps[k] = st)

\* C20: update_fast(force_caps) runs the EDID update first, the capability
\* update only if force_caps is set or no EDID is cached after the EDID
\* update, and the version update only if the capability data carried no
\* protocol version; update_all() runs the EDID, the capability and the
\* version update in that order whatever is cached. Either stops at the
\* first step that fails.
C20_StepOrder ==
    /\ dop.name = "update_fast" =>
          /\ StepsInOrder /\ Head(dout.steps) = "update_edid"
          /\ Ran_("update_capabilities") =>
                dop.force_caps \/ ~IsSome(disp.edid_data)
          /\ (dout.ret.ok /\ (dop.force_caps \/ ~IsSome(disp.edid_data))) =>
                Ran_("update_capabilities")
          /\ (Ran_("update_version") /\ Ran_("update_capabilities")) =>
                ~IsSome(Unwrap(LastCapabilities.val).mccs_version)
          /\ (dout.ret.ok /\ ~Ran_("update_version")) => IsSome(disp.info.mccs_version)
    /\ dop.name = "update_all" =>
          /\ \E n \in 1..3 : dout.steps = SubSeq(AllSteps, 1, n)
          /\ dout.ret.ok => dout.steps = AllSteps

\* update_fast(false) on a display whose EDID the first update_fast cached:
\* the capability update is skipped and the version update runs
C20_Witness ==
    /\ dop.name = "update_fast" /\ ~dop.force_caps /\ dcount = 2
    /\ IsSome(dprev.edid_data)
    /\ dout.steps = <<"update_edid", "update_version">>
    /\ dout.ret.ok

\* the variants of Error an operation of a Display can return
TypedErrors ==
    {"UnsupportedOp", "CapabilitiesReadError", "CapabilitiesParseError", "LowLevelError"}

\* the request a step sends to the handle
RequestOf(step) ==
    CASE step = "update_edid" -> "edid"
      [] step = "update_capabilities" -> "caps"
      [] OTHER -> "vcp"

\* the display as the steps before the last step of the last operation left it
BeforeLastStep ==
    LET e == update_edid(dprev, dans.edid).self
        c == IF Ran_("update_capabilities")
             THEN update_capabilities(e, dans.caps).self ELSE e
        last == dout.steps[Len(dout.steps)]
    IN  IF Len(dout.steps) = 1 THEN dprev
        ELSE IF last = "update_capabilities" THEN e ELSE c

\* C21: an update operation that fails returns a typed error, the last
\* request it sent is the one of the step that failed (no later step ran),
\* and the display is exactly what the steps before the failing one left:
\* the failing step changed no field and no cache, and nothing is rolled back.
C21_NoRollback ==
    (dcount > 0 /\ dop.name \notin HandleOps /\ ~dout.ret.ok) =>
        /\ dout.ret.err \in TypedErrors
        /\ dout.sent # <<>>
        /\ dout.sent[Len(dout.sent)] = RequestOf(dout.steps[Len(dout.steps)])
        /\ disp = BeforeLastStep
        /\ Len(dout.steps) = 1 => disp = dprev

\* update_capabilities fails on a malformed capability string after an
\* earlier update_capabilities filled in the model name and the database
C21_Witness ==
    /\ dcount = 2 /\ dlog[1].name = "update_capabilities" /\ dlog[1].ok
    /\ dop.name = "update_capabilities"
    /\ dout.ret = Err("CapabilitiesParseError")
    /\ IsSome(disp.info.model_name)
    /\ disp.info.mccs_database # EmptyDb

RECURSIVE Value(_, _)
\* the boolean value of the predicate tree q on the record inf
Value(q, inf) ==
    CASE q.kind = "Any" -> TRUE
      [] q.kind = "Backend" -> q.arg = inf.backend
      [] q.kind = "Id" -> q.arg = inf.id
      [] q.kind = "ManufacturerId" ->
            IsSome(inf.manufacturer_id) /\ Unwrap(inf.manufacturer_id) = q.arg
      [] q.kind = "ModelName" ->
            IsSome(inf.model_name) /\ Unwrap(inf.model_name) = q.arg
      [] q.kind = "SerialNumber" ->
            IsSome(inf.serial_number) /\ Unwrap(inf.serial_number) = q.arg
      [] q.kind = "Or" -> \E k \in 1..Len(q.subs) : Value(q.subs[k], inf)
      [] q.kind = "And" -> \A k \in 1..Len(q.subs) : Value(q.subs[k], inf)

\* C22: Query::matches(info) is the value of the predicate tree: Any is true,
\* a leaf on an optional field is true only if the field is present and equal
\* to the whole string, Or is true iff some sub-query matches (an empty Or is
\* false), And is true iff all match (an empty And is true); the call changes
\* neither the query nor the info.
C22_QueryMatches ==
    qcall.called =>
        /\ qcall.result = Value(qcall.self, qcall.info)
        /\ query = qcall.self /\ qinfo = qcall.info
        /\ qcall.self = QOr(<<>>) => ~qcall.result
        /\ qcall.self = QAnd(<<>>) => qcall.result
        /\ qcall.self = QAny => qcall.result

\* an And of an Or and a leaf: the Or's first leaf names a model the info's
\* model name only starts with, its second leaf is the one that matches
C22_Witness ==
    /\ qcall.called /\ qcall.result
    /\ qcall.self = QAnd(<<QOr(<<QLeaf("ModelName", "U2720Q"),
                                QLeaf("SerialNumber", "SN1")>>),
                           QLeaf("ManufacturerId", "DEL")>>)
    /\ qcall.info.model_name = Some("U27")
    /\ qcall.info.serial_number = Some("SN1")
    /\ qcall.info.manufacturer_id = Some("DEL")

(***************************************************************************)
(* Properties of the constructors of a DisplayInfo.                        *)
(***************************************************************************)
\* C23: a fragment that is absent contributes no field. A record built from
\* EDID alone has the manufacturer and the model id of the EDID, no protocol
\* version and an empty feature database; a record built from capabilities
\* without embedded EDID has no manufacturer, model id, serial or manufacture
\* date.
C23_AbsentFragment ==
    /\ mop = "from_edid" =>
          LET edid == edid_parse(Unwrap(info.edid_data))
          IN  /\ info.manufacturer_id = Some(edid.vendor)
              /\ info.model_id = Some(edid.product)
              /\ info.mccs_version = None
              /\ info.mccs_database = EmptyDb
    /\ (mop = "from_capabilities" /\ ~IsSome(mcaps.edid)) =>
          \A f \in {"manufacturer_id", "model_id", "serial", "manufacture_year",
                    "manufacture_week"} : info[f] = None

\* the EDID of manufacturer "ACM" with product id 0x1234
C23_Witness ==
    /\ mop = "from_edid"
    /\ info.manufacturer_id = Some("ACM") /\ info.model_id = Some(4660)
    /\ info.mccs_version = None

\* C24: the record from_capabilities returns has the feature database of the
\* capability string's protocol version, with the capability table applied,
\* exactly when the capability string carries a protocol version; without
\* one the database is empty, whatever features the string lists.
C24_DatabaseFromVersion ==
    mop = "from_capabilities" =>
        IF IsSome(mcaps.mccs_version)
        THEN info.mccs_database =
                 apply_capabilities(from_version(Unwrap(mcaps.mccs_version)), mcaps)
        ELSE info.mccs_database = EmptyDb

(***************************************************************************)
(* Properties of the closure of enumerate_winapi.                          *)
(***************************************************************************)
\* the candidates of a record in the order the closure tries them; None
\* where the record has no such source
Candidates(rec, i) ==
    LET mon  == IF IsSome(rec.mon_device) /\ Unwrap(rec.mon_device).ok
                THEN Some(<<"mon:">> \o Unwrap(rec.mon_device).id) ELSE None
        sok  == IsSome(rec.monitor_info) /\ Unwrap(rec.monitor_info).ok
        simon == Unwrap(rec.monitor_info)
        iid  == IF sok /\ IsSome(simon.iid)
                THEN Some(<<"si:iid:">> \o Unwrap(simon.iid)) ELSE None
        hw   == IF sok /\ IsSome(simon.hw)
                THEN Some(<<"si:hw:">> \o Unwrap(simon.hw)) ELSE None
        pok  == IsSome(rec.monitor) /\ Unwrap(rec.monitor).ok
        m    == Unwrap(rec.monitor)
        hmon == IF pok /\ IsSome(m.name)
                THEN Some(<<"hmon:">> \o Unwrap(m.name) \o <<"\\", "Monitor">> \o Dec(m.ii))
                ELSE None
        desc == IF pok /\ m.desc # GenericPnP THEN Some(<<"desc:">> \o m.desc) ELSE None
        pair == IF pok THEN Some(hmoni(m)) ELSE None
    IN  <<mon, iid, hw, hmon, desc, pair, Some(<<"index:">> \o Dec(i))>>

\* the registry accepts candidate k of the last record
Accepts(k) ==
    LET c == Candidates(wlast.rec, wlast.i)[k]
    IN  IsSome(c) /\ sanitize_id(Unwrap(c)) \notin wlast.before

\* C25: the id of a WinAPI display is the first candidate the registry
\* accepts, in the order monitor-device id, device instance id, hardware ids,
\* output device name with monitor index, physical monitor description,
\* output/monitor index pair, pass index; and no later candidate is
\* registered: the registry grows by that id alone.
C25_FirstAcceptedIsTheId ==
    (wlast.made /\ ~wlast.panic) =>
        \E k \in 1..7 :
            /\ Accepts(k)
            /\ \A j \in 1..(k - 1) : ~Accepts(j)
            /\ wlast.id = Some(sanitize_id(Unwrap(Candidates(wlast.rec, wlast.i)[k])))
            /\ wlast.after = wlast.before \cup {Unwrap(wlast.id)}

\* the physical monitors and the leftover entries whose id is the first
\* accepted candidate
FirstAcceptedWithMonitor ==
    (wlast.made /\ ~wlast.panic /\ IsSome(wlast.rec.monitor)
        /\ Unwrap(wlast.rec.monitor).ok) =>
        \E k \in 1..7 :
            /\ Accepts(k)
            /\ \A j \in 1..(k - 1) : ~Accepts(j)
            /\ wlast.id = Some(sanitize_id(Unwrap(Candidates(wlast.rec, wlast.i)[k])))
            /\ wlast.after = wlast.before \cup {Unwrap(wlast.id)}

(***************************************************************************)
(* Properties of the handle.                                               *)
(***************************************************************************)
\* the answer the device gave to the last call on the handle
LastAnswer ==
    IF dop.name = "read_edid" THEN dans.edid
    ELSE IF dop.name = "capabilities_string" THEN dans.caps ELSE dans.vcp

\* C26: a handle part that is missing answers UnsupportedOp, never a wrapped
\* backend error. On a WinApi handle without a physical monitor,
\* capabilities_string, get_vcp_feature, set_vcp_feature,
\* save_current_settings and get_timing_report return UnsupportedOp; on a
\* WinApi handle without device info and on every MacOS handle read_edid
\* returns UnsupportedOp; table_read and table_write on any WinApi handle
\* return UnsupportedOp.
C26_MissingPartUnsupported ==
    LET b == dprev.backend
        h == dprev.handle
    IN  /\ (dop.name \in {"capabilities_string", "get_vcp_feature", "set_vcp_feature",
                          "save_current_settings", "get_timing_report"}
               /\ b = "winapi" /\ ~h.monitor) => dout.ret = Err("UnsupportedOp")
        /\ (dop.name = "read_edid"
               /\ (b = "macos" \/ (b = "winapi" /\ ~h.monitor_info)))
              => dout.ret = Err("UnsupportedOp")
        /\ (dop.name \in {"table_read", "table_write"} /\ b = "winapi")
              => dout.ret = Err("UnsupportedOp")
        /\ dop.name \in HandleOps => disp = dprev

\* capabilities_string on a WinApi handle that has device info and no
\* physical monitor, after read_edid on the same handle returned data
C26_Witness ==
    /\ dcount = 2 /\ dlog[1].name = "read_edid" /\ dlog[1].ok
    /\ dop.name = "capabilities_string"
    /\ dprev.backend = "winapi" /\ ~dprev.handle.monitor /\ dprev.handle.monitor_info
    /\ LastAnswer.ok
    /\ dout.ret = Err("UnsupportedOp")

\* the capability data of the last from_capabilities embeds EDID bytes that
\* do not parse
MalformedEmbedded ==
    /\ mop = "from_capabilities" /\ IsSome(mcaps.edid)
    /\ ~from_edid(TheBackend, TheId, Unwrap(mcaps.edid)).ok

\* C27: a malformed EDID embedded in the capability data is not fatal:
\* from_capabilities returns a record whose model name, protocol version and
\* feature database are those of the capability string and whose fields
\* derived from EDID are absent.
C27_MalformedEdidNonFatal ==
    MalformedEmbedded =>
        /\ info.model_name = mcaps.model
        /\ info.mccs_version = mcaps.mccs_version
        /\ info.mccs_database =
              (IF IsSome(mcaps.mccs_version)
               THEN apply_capabilities(from_version(Unwrap(mcaps.mccs_version)), mcaps)
               ELSE EmptyDb)
        /\ \A f \in {"manufacturer_id", "model_id", "serial", "version",
                    "manufacture_year", "manufacture_week", "serial_number"} :
              info[f] = None

\* a capability string with a model name, a version and a feature list, and
\* embedded EDID bytes that do not parse
C27_Witness ==
    /\ MalformedEmbedded
    /\ IsSome(info.model_name) /\ IsSome(info.mccs_version)
    /\ info.mccs_database # EmptyDb

\* a source of the last record survived: its physical monitor was opened, or
\* its device info was retrieved
Surviving ==
    \/ IsSome(wlast.rec.monitor) /\ Unwrap(wlast.rec.monitor).ok
    \/ IsSome(wlast.rec.monitor_info) /\ Unwrap(wlast.rec.monitor_info).ok

\* C28: every Display enumerate_winapi yields holds a physical monitor handle
\* or a device-info handle; a record left with neither is yielded as an
\* error, for that record alone; and the assembly of the handle reaches its
\* todo!() for no record devs produces.
C28_AssemblyNeverPanics ==
    (wlast.made /\ ~wlast.panic) =>
        /\ wlast.kind \in {"ok", "err"}
        /\ wlast.kind = "ok" => (wlast.parts.monitor \/ wlast.parts.monitor_info)
        /\ wlast.kind = "err" <=> ~Surviving
        /\ wlast.kind = "ok" =>
              /\ wlast.parts.monitor =
                    (IsSome(wlast.rec.monitor) /\ Unwrap(wlast.rec.monitor).ok)
              /\ wlast.parts.monitor_info =
                    (IsSome(wlast.rec.monitor_info) /\ Unwrap(wlast.rec.monitor_info).ok)

\* an output whose physical monitors cannot be listed is yielded as an error
\* after a display was yielded, and the pass goes on to the next record
C28_Witness ==
    /\ wlast.made /\ wlast.kind = "err" /\ wlast.i = 1
    /\ IsSome(wlast.rec.monitor) /\ ~Unwrap(wlast.rec.monitor).ok
    /\ wi.i = 2 /\ ~wlast.panic

(***************************************************************************)
(* Properties of Display::update_capabilities.                             *)
(***************************************************************************)
\* the last operation was an update_capabilities that fetched and merged
CapabilitiesMerged ==
    dop.name = "update_capabilities" /\ dout.ret.ok /\ LastCapabilities.ok

\* the record from_capabilities made of the capabilities fetched last
FetchedInfo ==
    from_capabilities(dprev.backend, dprev.id, Unwrap(LastCapabilities.val))

\* with a version in the fetched capabilities, the stored version and the
\* stored database are replaced by the capability-derived ones
ReplacedWholesale ==
    (CapabilitiesMerged /\ IsSome(FetchedInfo.mccs_version)) =>
        /\ disp.info.mccs_version = FetchedInfo.mccs_version
        /\ disp.info.mccs_database = FetchedInfo.mccs_database

\* without one, the stored version and the populated optional fields are kept
OptionalFieldsKept ==
    (CapabilitiesMerged /\ ~IsSome(FetchedInfo.mccs_version)) =>
        /\ disp.info.mccs_version = dprev.info.mccs_version
        /\ \A f \in OptFields : IsSome(dprev.info[f]) => disp.info[f] = dprev.info[f]

EntryDevice(entry) ==
    IF IsSome(entry.mon) THEN Some(Unwrap(entry.mon).display) ELSE None

\* entry k of the pool may be paired with a physical monitor of the output
Eligible(k) ==
    si_monitors[k].ok /\ EntryDevice(si_monitors[k]) = output.disp_device

\* a step that adds the record of a physical monitor
PairingStep ==
    /\ Len(records') = Len(records) + 1
    /\ IsSome(records'[Len(records')].monitor)
    /\ Unwrap(records'[Len(records')].monitor).ok

\* the rule for one such step
PairedByRule ==
    LET rec == records'[Len(records')]
    IN  IF IsSome(rec.monitor_info)
        THEN \E k \in 1..Len(si_monitors) :
                /\ Eligible(k)
                /\ \A j \in 1..(k - 1) : ~Eligible(j)
                /\ Unwrap(rec.monitor_info) = [ok |-> TRUE, n |-> si_monitors[k].n]
                /\ rec.mon_device = si_monitors[k].mon
                /\ Len(si_monitors') = Len(si_monitors) - 1
                /\ \A j \in 1..Len(si_monitors') :
                      si_monitors'[j] = si_monitors[IF j < k THEN j ELSE j + 1]
        ELSE /\ \A k \in 1..Len(si_monitors) : ~Eligible(k)
             /\ si_monitors' = si_monitors

\* C30: a physical monitor of an output is paired with a device-info entry
\* only if the display device correlated to the entry equals the output's,
\* both absent counting as equal; an entry whose retrieval failed is never
\* paired; among several eligible entries the first of the pool is taken,
\* and a physical monitor stays without an entry only when none is eligible.
C30_PairingRule == [][PairingStep => PairedByRule]_vars

\* an output without display device takes the entry that matched nothing,
\* passing over the failed entry that is first in the pool; the failed entry
\* is drained as the record of an error
C30_Witness ==
    /\ cpc = "done" /\ Len(records) = 2
    /\ BothHandles(records[1]) /\ records[1].mon_device = None
    /\ Unwrap(records[1].monitor_info).n = 2
    /\ ~IsSome(records[2].monitor)
    /\ records[2].monitor_info = Some([ok |-> FALSE, n |-> 1])

====
